---- MODULE Spec2Model ----
(***************************************************************************)
(* Pillinfo: dosage-source arbitration (DosageService) and the cache-first *)
(* brand-name lookup (DrugLookupService over CacheService and the RxNorm   *)
(* catalog client).                                                        *)
(*                                                                         *)
(* Conventions of the model                                                *)
(*   - a Python str the code takes apart or builds (strip, lower, search,  *)
(*     f-string) is a sequence of one-character strings; a str the code    *)
(*     only passes along is a TLA+ string;                                 *)
(*   - Optional[x] is a sequence of length <= 1: None is <<>>, a value v   *)
(*     is <<v>>;                                                           *)
(*   - weights are in tenths of a kilogram (2.5 kg is 25), adult doses in  *)
(*     thousandths of a mg (0.088 mg is 88), computed doses in hundredths  *)
(*     of a mg (round(x, 2)).                                              *)
(***************************************************************************)
EXTENDS Integers, Sequences, FiniteSets, TLC

VARIABLES
    \* ---- DosageService.get_dosage_info: the last call
    dsArgs,      \* its arguments
    dsLabel,     \* what OpenFDAService.get_drug_info answered in it
    dsOut,       \* its outcome: a returned dict or a raised exception, and how
                 \* often it invoked DosageCalculator.calculate_pediatric_dosage
    \* ---- DrugLookupService.lookup_drug over one CacheService
    mem,         \* CacheService._cache: None until the first access, then a dict
    disk,        \* the content of data/cached_labels.json
    tasks,       \* the lookup_drug coroutines in flight, each with its locals
    lastDone,    \* the most recently completed lookup_drug call and its result
    nCalls,      \* number of lookup_drug calls started so far
    \* ---- CacheService used directly (save, get, clear, seed_common_drugs)
    csLast,      \* what the last operation returned, and what is known of the
                 \* operations before it
    \* ---- RxNormService.get_drug_details: one call and its NDC fan-out
    fan,         \* the call's position, its products, the NDC queries in
                 \* flight and answered, and the returned dict
    \* ---- the two remote clients, one call each
    lc,          \* OpenFDAService.get_drug_info: the retry loop's position,
                 \* the requests issued, the delays slept and the result
    cc,          \* RxNormService._fetch_products: the requests issued, the
                 \* response and the parsed product list
    \* ---- DrugLookupService.refine_products / evaluate_product_matches and
    \* ---- ProductMatcher.refine_products / evaluate_matches
    pm,          \* the last call: its arguments and what it returned
    \* ---- DosageCalculator.calculate_pediatric_dosage called directly
    dc,          \* the last call: its arguments and its outcome
    \* ---- the services as api/routes.py wires them: the CacheService inside
    \* ---- DrugLookupService and the one get_cache_service returns
    wr,          \* the two handles' dicts, the cache file, the lookup_drug
                 \* call in flight and what is known of past operations
    \* ---- _process_drug_lookup: one request
    pl           \* its position, its inputs, the calls it made and its result

vars == <<dsArgs, dsLabel, dsOut, mem, disk, tasks, lastDone, nCalls, csLast, fan,
          lc, cc, pm, dc, wr, pl>>
dsVars == <<dsArgs, dsLabel, dsOut>>
luVars == <<mem, disk, tasks, lastDone, nCalls>>
csVars == <<csLast>>
gdVars == <<fan>>
clVars == <<lc, cc>>
pmVars == <<pm>>
dcVars == <<dc>>
apVars == <<wr, pl>>

(***************************************************************************)
(* Bounds                                                                  *)
(***************************************************************************)
\* items in one list-valued field of a raw FDA label record
MaxFieldItems == 1
\* lookup_drug coroutines that may be in flight together
NumTasks == 2
\* lookup_drug calls started in one run
MaxCalls == 2

(***************************************************************************)
(* Python values                                                           *)
(***************************************************************************)
None == <<>>
Some(v) == <<v>>
IsNone(o) == o = <<>>
Val(o) == o[1]

UPPER == <<"A","B","C","D","E","F","G","H","I","J","K","L","M",
           "N","O","P","Q","R","S","T","U","V","W","X","Y","Z">>
LOWER == <<"a","b","c","d","e","f","g","h","i","j","k","l","m",
           "n","o","p","q","r","s","t","u","v","w","x","y","z">>

\* the lower-case letter of each upper-case one
LowerTable ==
    [c \in {UPPER[i] : i \in 1..Len(UPPER)} |->
        LOWER[CHOOSE i \in 1..Len(UPPER) : UPPER[i] = c]]

\* str.lower() / re.IGNORECASE on one character
LowerChar(c) == IF c \in DOMAIN LowerTable THEN LowerTable[c] ELSE c

\* str.lower()
Lower(s) == [i \in 1..Len(s) |-> LowerChar(s[i])]

\* \s of the re module, str.strip()'s whitespace
IsSpace(c) == c \in {" ", "\t", "\n"}
\* \d of the re module
IsDigit(c) == c \in {"0","1","2","3","4","5","6","7","8","9"}

\* a blank check and a cache key taken from the name as passed, not stripped
StripNothing(s) == s

\* str.strip()
Strip(s) ==
    LET keep == {i \in 1..Len(s) : ~IsSpace(s[i])}
    IN  IF keep = {} THEN <<>>
        ELSE LET lo == CHOOSE i \in keep : \A j \in keep : i <= j
                 hi == CHOOSE i \in keep : \A j \in keep : i >= j
             IN  SubSeq(s, lo, hi)

\* " ".join(items)
RECURSIVE Join(_)
Join(items) ==
    IF Len(items) = 0 THEN <<>>
    ELSE IF Len(items) = 1 THEN items[1]
    ELSE items[1] \o <<" ">> \o Join(Tail(items))

(***************************************************************************)
(* re.search(pattern, text, re.IGNORECASE) for the patterns the service    *)
(* uses: literal characters, \s* and \d+.                                  *)
(***************************************************************************)
Lit(chars) == [i \in 1..Len(chars) |-> [k |-> "lit", c |-> chars[i]]]
WsStar == <<[k |-> "ws*", c |-> ""]>>
DigitPlus == <<[k |-> "d+", c |-> ""]>>

RECURSIVE MatchAt(_, _, _, _)
MatchAt(pat, j, text, i) ==
    IF j > Len(pat) THEN TRUE
    ELSE CASE pat[j].k = "lit" ->
                  /\ i <= Len(text)
                  /\ LowerChar(text[i]) = LowerChar(pat[j].c)
                  /\ MatchAt(pat, j + 1, text, i + 1)
           [] pat[j].k = "ws*" ->
                  \/ MatchAt(pat, j + 1, text, i)
                  \/ /\ i <= Len(text)
                     /\ IsSpace(text[i])
                     /\ MatchAt(pat, j, text, i + 1)
           [] pat[j].k = "d+" ->
                  /\ i <= Len(text)
                  /\ IsDigit(text[i])
                  /\ \/ MatchAt(pat, j + 1, text, i + 1)
                     \/ MatchAt(pat, j, text, i + 1)

\* re.match in place of re.search: the pattern is tried at the start only
ReMatchOnly(pat, text) == MatchAt(pat, 1, text, 1)

ReSearch(pat, text) == \E i \in 1..(Len(text) + 1) : MatchAt(pat, 1, text, i)

(***************************************************************************)
(* OpenFDAService: the parsed label                                        *)
(***************************************************************************)
\* OpenFDAService._extract_field: a missing field and an empty list are None,
\* a list is joined with single spaces
_extract_field(value) ==
    IF IsNone(value) THEN None
    ELSE IF Len(Val(value)) = 0 THEN None
    ELSE Some(Join(Val(value)))

\* OpenFDAService._parse_label: the six keys are always present in the dict
_parse_label(label) ==
    [ purpose                   |-> _extract_field(label.purpose),
      dosage_and_administration |-> _extract_field(label.dosage_and_administration),
      pediatric_use             |-> _extract_field(label.pediatric_use),
      warnings                  |-> _extract_field(label.warnings),
      contraindications         |-> _extract_field(label.contraindications),
      adverse_reactions         |-> _extract_field(label.adverse_reactions) ]

(***************************************************************************)
(* DosageCalculator (backend/utilities/dosage_calculator.py)               *)
(***************************************************************************)
STANDARD_ADULT_WEIGHT_KG == 700
YOUNGS_RULE_CONSTANT == 12
MIN_WEIGHT_KG == 25
MAX_WEIGHT_KG == 2000
MIN_AGE == 0
MAX_AGE == 18

\* round(num / den, 0) for num >= 0, den > 0: to nearest, ties to even (the
\* doses, weights and ages of the model put no float product on a tie)
RoundDiv(num, den) ==
    LET q == num \div den
        r == num % den
    IN  IF 2 * r < den THEN q
        ELSE IF 2 * r > den THEN q + 1
        ELSE IF q % 2 = 0 THEN q ELSE q + 1

\* _validate_inputs that turns the limit weights away as well
_validate_inputs_strict(adult_dose_mg, weight_kg, age) ==
    IF adult_dose_mg <= 0 \/ IsNone(weight_kg)
       \/ Val(weight_kg) <= MIN_WEIGHT_KG \/ Val(weight_kg) >= MAX_WEIGHT_KG
    THEN [exc |-> "ValueError", text |-> "out of range"]
    ELSE IF ~IsNone(age) /\ (Val(age) < MIN_AGE \/ Val(age) > 120)
    THEN [exc |-> "ValueError", text |-> "out of range"]
    ELSE [exc |-> "", text |-> ""]

\* DosageCalculator._validate_inputs: "ok", a ValueError with its text, or the
\* TypeError of comparing None with a number (weight is compared unguarded)
_validate_inputs(adult_dose_mg, weight_kg, age) ==
    IF adult_dose_mg <= 0
    THEN [exc |-> "ValueError", text |-> "Adult dose must be positive."]
    ELSE IF IsNone(weight_kg)
    THEN [exc |-> "TypeError", text |-> "'<' not supported"]
    ELSE IF Val(weight_kg) < MIN_WEIGHT_KG
    THEN [exc |-> "ValueError", text |-> "Weight must be >= 2.5 kg."]
    ELSE IF Val(weight_kg) > MAX_WEIGHT_KG
    THEN [exc |-> "ValueError", text |-> "Weight seems unreasonably high."]
    ELSE IF ~IsNone(age) /\ Val(age) < MIN_AGE
    THEN [exc |-> "ValueError", text |-> "Age cannot be negative."]
    ELSE IF ~IsNone(age) /\ Val(age) > 120
    THEN [exc |-> "ValueError", text |-> "Age seems unreasonably high."]
    ELSE [exc |-> "", text |-> ""]

\* _clarks_rule, through _build_method_result's round(dose, 2): the dose in
\* thousandths of mg times weight / 70, in hundredths of mg
_clarks_rule(adult_dose_mg, weight_kg) ==
    RoundDiv(weight_kg * adult_dose_mg, STANDARD_ADULT_WEIGHT_KG * 10)

\* _youngs_rule, rounded likewise
_youngs_rule(adult_dose_mg, age_years) ==
    RoundDiv(age_years * adult_dose_mg, (age_years + YOUNGS_RULE_CONSTANT) * 10)

\* _frieds_rule, rounded likewise
_frieds_rule(adult_dose_mg, age_months) ==
    RoundDiv(age_months * adult_dose_mg, 150 * 10)

\* _calculate_methods that applies Young's rule below MAX_AGE only
_calculate_methods_below(adult_dose_mg, weight_kg, age) ==
    [ clarks_rule |-> Some(_clarks_rule(adult_dose_mg, weight_kg)),
      youngs_rule |-> IF ~IsNone(age) /\ Val(age) < MAX_AGE
                      THEN Some(_youngs_rule(adult_dose_mg, Val(age)))
                      ELSE None,
      frieds_rule |-> IF ~IsNone(age) /\ Val(age) < 2
                      THEN Some(_frieds_rule(adult_dose_mg, Val(age) * 12))
                      ELSE None ]

\* DosageCalculator._calculate_methods: each rule's dose_mg, None where the
\* rule is not applicable
_calculate_methods(adult_dose_mg, weight_kg, age) ==
    [ clarks_rule |-> Some(_clarks_rule(adult_dose_mg, weight_kg)),
      youngs_rule |-> IF ~IsNone(age) /\ Val(age) <= MAX_AGE
                      THEN Some(_youngs_rule(adult_dose_mg, Val(age)))
                      ELSE None,
      frieds_rule |-> IF ~IsNone(age) /\ Val(age) < 2
                      THEN Some(_frieds_rule(adult_dose_mg, Val(age) * 12))
                      ELSE None ]

\* DosageCalculator._generate_warnings: a list of plain strings
_generate_warnings(dose, weight_kg, age) ==
    <<[text |-> "estimates only"]>>
    \o (IF weight_kg < 100 THEN <<[text |-> "very low weight"]>> ELSE <<>>)
    \o (IF ~IsNone(age) /\ Val(age) < 2 THEN <<[text |-> "infant"]>>
        ELSE IF ~IsNone(age) /\ Val(age) >= 12 THEN <<[text |-> "approaching adult age"]>>
        ELSE <<>>)
    \o (IF dose < 100 THEN <<[text |-> "very small dose"]>> ELSE <<>>)

\* DosageCalculator.calculate_pediatric_dosage: [exc, text] when validation
\* raises, else the result dict under "value"
calculate_pediatric_dosage(adult_dose_mg, patient_weight_kg, patient_age) ==
    LET v == _validate_inputs(adult_dose_mg, patient_weight_kg, patient_age)
    IN  IF v.exc # "" THEN [exc |-> v.exc, text |-> v.text, value |-> None]
        ELSE LET w == Val(patient_weight_kg)
                 methods == _calculate_methods(adult_dose_mg, w, patient_age)
                 recommended_dose == Val(methods.clarks_rule)
             IN  [ exc |-> "", text |-> "",
                   value |-> Some(
                     [ adult_dose_mg       |-> adult_dose_mg,
                       patient_weight_kg   |-> w,
                       patient_age         |-> patient_age,
                       methods             |-> methods,
                       recommended_dose_mg |-> recommended_dose,
                       warnings |-> _generate_warnings(recommended_dose, w, patient_age) ]) ]

\* backend/services/dosage_calculator.py, _generate_warnings: the same tests
\* as above on a dose that has not been rounded, given as the fraction
\* num / den of a mg
services_generate_warnings(calculated_dose, weight_kg, age) ==
    <<[text |-> "estimates only"]>>
    \o (IF weight_kg < 100 THEN <<[text |-> "very low weight"]>> ELSE <<>>)
    \o (IF ~IsNone(age) /\ Val(age) < 2 THEN <<[text |-> "infant"]>>
        ELSE IF ~IsNone(age) /\ Val(age) >= 12 THEN <<[text |-> "approaching adult age"]>>
        ELSE <<>>)
    \o (IF calculated_dose.num < calculated_dose.den
        THEN <<[text |-> "very small dose"]>> ELSE <<>>)

\* backend/services/dosage_calculator.py, calculate_pediatric_dosage: the
\* methods and the recommended dose hold round(dose, 2), the warnings are
\* generated from clarks_dose itself
services_calculate_pediatric_dosage(adult_dose_mg, patient_weight_kg, patient_age) ==
    LET v == _validate_inputs(adult_dose_mg, patient_weight_kg, patient_age)
    IN  IF v.exc # "" THEN [exc |-> v.exc, text |-> v.text, value |-> None]
        ELSE LET w == Val(patient_weight_kg)
                 methods == _calculate_methods(adult_dose_mg, w, patient_age)
                 clarks_dose == [ num |-> w * adult_dose_mg,
                                  den |-> STANDARD_ADULT_WEIGHT_KG * 1000 ]
             IN  [ exc |-> "", text |-> "",
                   value |-> Some(
                     [ adult_dose_mg       |-> adult_dose_mg,
                       patient_weight_kg   |-> w,
                       patient_age         |-> patient_age,
                       methods             |-> methods,
                       recommended_dose_mg |-> Val(methods.clarks_rule),
                       warnings |-> services_generate_warnings(clarks_dose, w,
                                                               patient_age) ]) ]

(***************************************************************************)
(* DosageService (backend/services/dosage_service.py)                      *)
(***************************************************************************)
RESTRICTION_PATTERNS ==
    << Lit(<<"n","o","t"," ","r","e","c","o","m","m","e","n","d","e","d">>),
       Lit(<<"d","o"," ","n","o","t"," ","u","s","e">>),
       Lit(<<"c","o","n","t","r","a","i","n","d","i","c","a","t","e","d">>),
       Lit(<<"c","o","n","s","u","l","t"," ","a"," ","d","o","c","t","o","r">>),
       Lit(<<"c","h","i","l","d","r","e","n"," ","u","n","d","e","r">>)
           \o WsStar \o DigitPlus,
       Lit(<<"i","n","f","a","n","t","s"," ","u","n","d","e","r">>)
           \o WsStar \o DigitPlus >>

\* the alternatives of (mg/kg|ml/kg|per\s*kg|mcg/kg)
WEIGHT_BASED_PATTERN ==
    << Lit(<<"m","g","/","k","g">>),
       Lit(<<"m","l","/","k","g">>),
       Lit(<<"p","e","r">>) \o WsStar \o Lit(<<"k","g">>),
       Lit(<<"m","c","g","/","k","g">>) >>

_is_restricted(text) ==
    \E p \in 1..Len(RESTRICTION_PATTERNS) : ReSearch(RESTRICTION_PATTERNS[p], text)

\* _is_weight_based that knows the units written with a slash only
_is_weight_based_slash(text) ==
    \E p \in {1, 2, 4} : ReSearch(WEIGHT_BASED_PATTERN[p], text)

_is_weight_based(text) ==
    \E p \in 1..Len(WEIGHT_BASED_PATTERN) : ReSearch(WEIGHT_BASED_PATTERN[p], text)

_build_restricted_response(fda_info, dosage_text, pediatric_text) ==
    [ source      |-> "fda_official",
      confidence  |-> "high",
      dosing_info |-> Some(
          [ dosage_and_administration |-> dosage_text,
            pediatric_use             |-> pediatric_text,
            warnings                  |-> fda_info.warnings,
            contraindications         |-> fda_info.contraindications ]),
      note        |-> "Restricted pediatric use. Consult healthcare provider.",
      warnings    |-> << [ level    |-> "critical",
                           category |-> "restriction_detected",
                           message  |-> "FDA label indicates this product is not safe for some ages." ] >> ]

_build_fda_response(fda_info, dosage_text, pediatric_text, weight_based) ==
    [ source      |-> "fda_official",
      confidence  |-> "high",
      dosing_info |-> Some(
          [ dosage_and_administration |-> dosage_text,
            pediatric_use             |-> pediatric_text,
            weight_based              |-> weight_based,
            warnings                  |-> fda_info.warnings,
            contraindications         |-> fda_info.contraindications ]),
      note        |-> "Official FDA-approved pediatric dosing.",
      warnings    |-> << [ level    |-> "info",
                           category |-> "source_info",
                           message  |-> "Information retrieved from official FDA drug label." ] >> ]

\* warnings.insert(0, ...) acts on the calculator's own list, which the dict
\* under dosing_info still refers to
_build_calculated_response(calculated) ==
    LET warnings ==
            << [ level    |-> "critical",
                 category |-> "calculation_warning",
                 message  |-> "Calculated using generic formulas, not official guidelines. Consult healthcare provider." ] >>
            \o calculated.warnings
    IN  [ source      |-> "calculated_estimate",
          confidence  |-> "low",
          dosing_info |-> Some([calculated EXCEPT !.warnings = warnings]),
          note        |-> "Estimated using pediatric formula.",
          warnings    |-> warnings ]

\* the unavailable response with the calculated response's confidence
_build_unavailable_response_low ==
    [ source      |-> "unavailable",
      confidence  |-> "low",
      dosing_info |-> None,
      note        |-> "No FDA or calculated dosage available. Consult provider.",
      warnings    |-> << [ level    |-> "critical",
                           category |-> "no_data",
                           message  |-> "No pediatric dosing information available." ] >> ]

_build_unavailable_response ==
    [ source      |-> "unavailable",
      confidence  |-> "none",
      dosing_info |-> None,
      note        |-> "No FDA or calculated dosage available. Consult provider.",
      warnings    |-> << [ level    |-> "critical",
                           category |-> "no_data",
                           message  |-> "No pediatric dosing information available." ] >> ]

\* the test of the label on line 144 inverted
HasDosageFieldInverted(dosage_field) ==
    IsNone(dosage_field) \/ Len(Val(dosage_field)) = 0

\* the test of the label on line 144 reading a key the label never has
HasDosageFieldNever(dosage_field) == FALSE

\* `fda_info and dosage_field` (line 144) for a label that was returned: the
\* parsed dict is never empty, the field is true iff a non-empty str
HasDosageField(dosage_field) ==
    ~IsNone(dosage_field) /\ Len(Val(dosage_field)) > 0

\* str(x) of an Optional[str]: str(None) is the text None
StrOf(field) == IF IsNone(field) THEN <<"N","o","n","e">> ELSE Val(field)

\* {**base_result, **response}: the response's keys beside the base keys;
\* calculation_error is None where the key is absent
Merged(base, response) ==
    [ patient_weight_kg  |-> base.patient_weight_kg,
      patient_age        |-> base.patient_age,
      patient_age_months |-> base.patient_age_months,
      calculation_error  |-> base.calculation_error,
      source             |-> response.source,
      confidence         |-> response.confidence,
      dosing_info        |-> response.dosing_info,
      note               |-> response.note,
      warnings           |-> response.warnings ]

Returned(value, calc_calls) ==
    [kind |-> "return", exc |-> "", value |-> Some(value), calc_calls |-> calc_calls]
Raised(exc, calc_calls) ==
    [kind |-> "raise", exc |-> exc, value |-> None, calc_calls |-> calc_calls]

\* DosageService.get_dosage_info, given what get_drug_info answered (fda_info:
\* None or the parsed label). Line 142 calls fda_info.get before fda_info is
\* tested, so a None answer raises AttributeError.
get_dosage_info(fda_info, adult_dose_mg, patient_weight_kg, patient_age, patient_age_months) ==
    LET base_result ==
            [ patient_weight_kg  |-> patient_weight_kg,
              patient_age        |-> patient_age,
              patient_age_months |-> patient_age_months,
              calculation_error  |-> None ]
    IN  IF IsNone(fda_info) THEN Raised("AttributeError", 0)
        ELSE
        LET info == Val(fda_info)
            dosage_field == info.dosage_and_administration
            pediatric_field == info.pediatric_use
        IN  IF HasDosageField(dosage_field)
            THEN LET dosage_text == StrOf(dosage_field)
                     pediatric_text == StrOf(pediatric_field)
                     full_text == dosage_text \o <<" ">> \o pediatric_text
                 IN  IF _is_restricted(full_text)
                     THEN Returned(Merged(base_result,
                              _build_restricted_response(info, dosage_text, pediatric_text)), 0)
                     ELSE Returned(Merged(base_result,
                              _build_fda_response(info, dosage_text, pediatric_text,
                                                  _is_weight_based(dosage_text))), 0)
            ELSE IF ~IsNone(adult_dose_mg) /\ Val(adult_dose_mg) # 0
            THEN LET calculated == calculate_pediatric_dosage(
                                       Val(adult_dose_mg), patient_weight_kg, patient_age)
                 IN  IF calculated.exc = ""
                     THEN Returned(Merged(base_result,
                              _build_calculated_response(Val(calculated.value))), 1)
                     ELSE IF calculated.exc = "ValueError"
                     THEN Returned(Merged(
                              [base_result EXCEPT !.calculation_error = Some(calculated.text)],
                              _build_unavailable_response), 1)
                     ELSE Raised(calculated.exc, 1)
            ELSE Returned(Merged(base_result, _build_unavailable_response), 0)

(***************************************************************************)
(* Inputs of get_dosage_info                                               *)
(***************************************************************************)
\* texts an FDA label field may hold
LabelTexts ==
    { <<"5"," ","m","g","/","k","g">>,
      <<"1","0"," ","M","L"," ","P","E","R"," ","K","G">>,
      <<"D","o"," ","N","O","T">>,
      <<"r","e","c","o","m","m","e","n","d","e","d">>,
      <<"C","h","i","l","d","r","e","n"," ","u","n","d","e","r"," ","2">> }

RECURSIVE SeqsUpTo(_, _)
SeqsUpTo(S, n) ==
    IF n = 0 THEN {<<>>}
    ELSE LET shorter == SeqsUpTo(S, n - 1)
         IN  shorter \cup {Append(s, x) : s \in shorter, x \in S}

\* a raw label field: missing, or a list of texts
RawFields == {None} \cup {Some(items) : items \in SeqsUpTo(LabelTexts, MaxFieldItems)}
RawPediatric ==
    { None, Some(<<>>),
      Some(<< <<"r","e","c","o","m","m","e","n","d","e","d">> >>),
      Some(<< <<"C","h","i","l","d","r","e","n"," ","u","n","d","e","r"," ","2">> >>),
      Some(<< <<"5"," ","m","g","/","k","g">> >>) }
RawFlags == {None, Some(<< <<"s","e","e"," ","b","o","x">> >>)}

\* the records the openFDA index may return as results[0]
RawLabels ==
    { [ purpose                   |-> None,
        dosage_and_administration |-> d,
        pediatric_use             |-> p,
        warnings                  |-> wc[1],
        contraindications         |-> wc[2],
        adverse_reactions         |-> None ] :
      d \in RawFields, p \in RawPediatric,
      wc \in {<<None, None>>} \cup {<<w, None>> : w \in RawFlags}
                              \cup {<<None, c>> : c \in RawFlags} }

\* OpenFDAService.get_drug_info: None (no result, an error status, retries
\* exhausted) or the parsed first result
LabelAnswers == {None} \cup {Some(_parse_label(raw)) : raw \in RawLabels}

AdultDoses == {None, Some(0), Some(-100000), Some(100000)}
Weights == {None, Some(10), Some(25), Some(350), Some(2000), Some(2500)}
Ages == {None, Some(-1), Some(5), Some(121)}

(***************************************************************************)
(* State machine                                                           *)
(***************************************************************************)
DosageInit ==
    /\ dsArgs = [ adult_dose_mg |-> None, patient_weight_kg |-> None,
                  patient_age |-> None, patient_age_months |-> None ]
    /\ dsLabel = None
    /\ dsOut = [kind |-> "none", exc |-> "", value |-> None, calc_calls |-> 0]

\* get_dosage_info is entered and awaits the label client (line 141). The
\* service keeps no state between calls, so a run follows one call.
DosageStart(adult_dose_mg, patient_weight_kg, patient_age) ==
    /\ dsOut.kind = "none"
    /\ dsArgs' = [ adult_dose_mg |-> adult_dose_mg,
                   patient_weight_kg |-> patient_weight_kg,
                   patient_age |-> patient_age,
                   patient_age_months |-> None ]
    /\ dsOut' = [dsOut EXCEPT !.kind = "awaiting"]
    /\ UNCHANGED dsLabel
    /\ UNCHANGED <<luVars, csVars, gdVars, clVars, pmVars, dcVars, apVars>>

\* the label client answers and get_dosage_info runs to its end (lines 142-172)
DosageFinish(fda_info) ==
    /\ dsOut.kind = "awaiting"
    /\ dsLabel' = fda_info
    /\ dsOut' = get_dosage_info(fda_info, dsArgs.adult_dose_mg,
                                dsArgs.patient_weight_kg, dsArgs.patient_age,
                                dsArgs.patient_age_months)
    /\ UNCHANGED dsArgs
    /\ UNCHANGED <<luVars, csVars, gdVars, clVars, pmVars, dcVars, apVars>>

\* the lookup service is not running in the runs of get_dosage_info
LookupIdle ==
    /\ mem = None
    /\ disk = <<>>
    /\ tasks = <<>>
    /\ lastDone = None
    /\ nCalls = 0

\* no CacheService operation made yet
NoReturn ==
    [op |-> "none", name |-> <<>>, value |-> None, success |-> FALSE, raised |-> FALSE]
CacheIdle == csLast = [saved |-> None, cleared |-> FALSE, ret |-> NoReturn]

\* no get_drug_details call made yet
FanIdle ==
    fan = [pc |-> "idle", brand_name |-> <<>>, products |-> <<>>,
           generic_name |-> None, pending |-> {}, answers |-> <<>>,
           order |-> <<>>, result |-> None]

\* no label-client call and no catalog-client call made yet
LabelIdle ==
    lc = [pc |-> "idle", drug_name |-> <<>>, attempt |-> 0, requests |-> 0,
          responses |-> <<>>, delays |-> <<>>, result |-> None]
CatalogIdle ==
    cc = [pc |-> "idle", requests |-> 0, responses |-> <<>>, products |-> <<>>]
ClientsIdle == LabelIdle /\ CatalogIdle

\* no refine / evaluate call made yet
MatcherIdle ==
    pm = [op |-> "none", products |-> <<>>, dosage |-> None, route |-> None,
          form |-> None, user_was_specific |-> FALSE, refined |-> <<>>,
          fuzzy |-> <<>>, result |-> None, matcher |-> None]

\* no direct calculate_pediatric_dosage call made yet
CalcIdle ==
    dc = [kind |-> "none", adult_dose_mg |-> 0, patient_weight_kg |-> 0,
          patient_age |-> None, exc |-> "", value |-> None, older |-> None]

\* no request made through the routes yet: neither handle has loaded the
\* file, which is empty
WiringIdle ==
    wr = [ lookup |-> None, admin |-> None, file |-> <<>>, fetching |-> None,
           saved |-> {}, cleared |-> {}, last |-> None, steps |-> 0 ]

\* no _process_drug_lookup request made yet
PipelineIdle ==
    pl = [ pc |-> "idle", processed |-> None, products |-> <<>>,
           match_type |-> "", lookups |-> 0, arbiter_calls |-> 0,
           label_queries |-> 0, out |-> None ]

RestIdle == ClientsIdle /\ MatcherIdle /\ CalcIdle /\ WiringIdle /\ PipelineIdle

InitDosage == DosageInit /\ LookupIdle /\ CacheIdle /\ FanIdle /\ RestIdle

NextDosage ==
    \/ \E adult_dose_mg \in AdultDoses, patient_weight_kg \in Weights,
          patient_age \in Ages :
           DosageStart(adult_dose_mg, patient_weight_kg, patient_age)
    \/ \E fda_info \in LabelAnswers : DosageFinish(fda_info)

SpecDosage == InitDosage /\ [][NextDosage]_vars

(***************************************************************************)
(* Claims about DosageService.get_dosage_info                              *)
(***************************************************************************)
DsFinished == dsOut.kind \in {"return", "raise"}
DsReturned == dsOut.kind = "return"
DsResult == Val(dsOut.value)
\* the label client answered with a label whose dosing instructions are non-empty
LabelHasDosing ==
    /\ ~IsNone(dsLabel)
    /\ ~IsNone(Val(dsLabel).dosage_and_administration)
    /\ Len(Val(Val(dsLabel).dosage_and_administration)) > 0
DoseIn == ~IsNone(dsArgs.adult_dose_mg) /\ Val(dsArgs.adult_dose_mg) > 0
WeightIn ==
    /\ ~IsNone(dsArgs.patient_weight_kg)
    /\ Val(dsArgs.patient_weight_kg) >= 25
    /\ Val(dsArgs.patient_weight_kg) <= 2000
AgeOk ==
    IsNone(dsArgs.patient_age)
    \/ (Val(dsArgs.patient_age) >= 0 /\ Val(dsArgs.patient_age) <= 120)

\* C1: whenever the label client returns a label with non-empty dosing
\* instructions, the call returns source = official label, confidence = high,
\* whatever adult dose, weight and age are, and never invokes the calculator.
C1_OfficialLabelWins ==
    (DsFinished /\ LabelHasDosing) =>
        /\ DsReturned
        /\ DsResult.source = "fda_official"
        /\ DsResult.confidence = "high"
        /\ dsOut.calc_calls = 0

\* a label with dosing answered a call whose inputs the calculator would accept
C1_Witness ==
    /\ DsReturned /\ LabelHasDosing
    /\ DoseIn /\ WeightIn /\ AgeOk
    /\ DsResult.source = "fda_official"

\* C2 as stated: a calculated estimate is returned only when the label client
\* returned no label record at all.
C2_Original ==
    (DsReturned /\ DsResult.source = "calculated_estimate") => IsNone(dsLabel)

\* C2 as amended: a calculated estimate is returned only in calls where the
\* label client returned no non-empty dosing instructions; a label record with
\* empty dosing instructions does not keep the calculator from being used.
C2_CalculatedOnlyWithoutDosing ==
    (DsReturned /\ DsResult.source = "calculated_estimate") => ~LabelHasDosing

\* a calculated estimate returned although a label record with pediatric-use
\* text (and no dosing instructions) was found
C2_Witness ==
    /\ DsReturned
    /\ DsResult.source = "calculated_estimate"
    /\ ~IsNone(dsLabel)
    /\ ~IsNone(Val(dsLabel).pediatric_use)

\* the restriction markers, read off a text directly: a phrase occurs in the
\* lower-cased text, or an age-threshold phrase is followed by a number
ContainsPhrase(text, phrase) ==
    \E i \in 1..(Len(text) - Len(phrase) + 1) :
        SubSeq(Lower(text), i, i + Len(phrase) - 1) = phrase
ContainsThreshold(text, phrase) ==
    \E i \in 1..(Len(text) - Len(phrase) + 1) :
        /\ SubSeq(Lower(text), i, i + Len(phrase) - 1) = phrase
        /\ \E j \in (i + Len(phrase))..Len(text) :
              /\ IsDigit(text[j])
              /\ \A k \in (i + Len(phrase))..(j - 1) : IsSpace(text[k])
HasRestrictionMarker(text) ==
    \/ ContainsPhrase(text, <<"n","o","t"," ","r","e","c","o","m","m","e","n","d","e","d">>)
    \/ ContainsPhrase(text, <<"d","o"," ","n","o","t"," ","u","s","e">>)
    \/ ContainsPhrase(text, <<"c","o","n","t","r","a","i","n","d","i","c","a","t","e","d">>)
    \/ ContainsPhrase(text, <<"c","o","n","s","u","l","t"," ","a"," ","d","o","c","t","o","r">>)
    \/ ContainsThreshold(text, <<"c","h","i","l","d","r","e","n"," ","u","n","d","e","r">>)
    \/ ContainsThreshold(text, <<"i","n","f","a","n","t","s"," ","u","n","d","e","r">>)

LabelDosingText == StrOf(Val(dsLabel).dosage_and_administration)
LabelPediatricText == StrOf(Val(dsLabel).pediatric_use)
LabelFullText == LabelDosingText \o <<" ">> \o LabelPediatricText
CriticalRestriction(w) == w.level = "critical" /\ w.category = "restriction_detected"

\* C3: if the label has non-empty dosing instructions and the dosing text
\* followed by the pediatric-use text contains a restriction marker in any
\* letter case, the result is official label / high with a critical
\* restriction warning, whatever adult dose, weight and age are; a marker
\* found only in the pediatric-use text counts.
C3_RestrictionDetected ==
    (DsFinished /\ LabelHasDosing /\ HasRestrictionMarker(LabelFullText)) =>
        /\ DsReturned
        /\ DsResult.source = "fda_official"
        /\ DsResult.confidence = "high"
        /\ \E i \in 1..Len(DsResult.warnings) : CriticalRestriction(DsResult.warnings[i])

\* the marker is in the pediatric-use text only, and an adult dose was supplied
C3_Witness ==
    /\ DsReturned /\ LabelHasDosing
    /\ ~HasRestrictionMarker(LabelDosingText)
    /\ HasRestrictionMarker(LabelPediatricText)
    /\ DoseIn /\ WeightIn
    /\ \E i \in 1..Len(DsResult.warnings) : CriticalRestriction(DsResult.warnings[i])

\* C4: with no label data, an adult dose > 0 and a weight in [2.5, 200] (age
\* absent or in [0, 120]), the result is calculated estimate / low and its
\* recommended dose is weight / 70 x adult dose.
C4_CalculatedFallback ==
    (DsFinished /\ IsNone(dsLabel) /\ DoseIn /\ WeightIn /\ AgeOk) =>
        /\ DsReturned
        /\ DsResult.source = "calculated_estimate"
        /\ DsResult.confidence = "low"
        /\ ~IsNone(DsResult.dosing_info)
        /\ Val(DsResult.dosing_info).recommended_dose_mg
             = RoundDiv(Val(dsArgs.patient_weight_kg) * Val(dsArgs.adult_dose_mg), 7000)

\* C5: get_dosage_info never raises; it returns one of the three sources, and
\* without label data and without a usable calculation the source is unavailable.
C5_NeverRaises ==
    DsFinished =>
        /\ DsReturned
        /\ DsResult.source \in {"fda_official", "calculated_estimate", "unavailable"}
        /\ (IsNone(dsLabel) /\ ~(DoseIn /\ WeightIn /\ AgeOk))
              => DsResult.source = "unavailable"

\* C6: without label dosing data, when an adult dose is supplied and the
\* calculator rejects the inputs (adult dose <= 0, weight outside [2.5, 200],
\* age outside [0, 120]), the call returns unavailable / none with no dosing
\* details and keeps the validation error text.
C6_ValidationErrorRetained ==
    ( /\ DsFinished /\ ~LabelHasDosing
      /\ ~IsNone(dsArgs.adult_dose_mg)
      /\ ~IsNone(dsArgs.patient_weight_kg)
      /\ ~(DoseIn /\ WeightIn /\ AgeOk) ) =>
        /\ DsReturned
        /\ DsResult.source = "unavailable"
        /\ DsResult.confidence = "none"
        /\ IsNone(DsResult.dosing_info)
        /\ ~IsNone(DsResult.calculation_error)

\* C7: in every returned result, official label goes with high, calculated
\* estimate with low, and unavailable with none and absent dosing details,
\* each in both directions.
C7_SourceConfidence ==
    DsReturned =>
        /\ (DsResult.source = "fda_official") <=> (DsResult.confidence = "high")
        /\ (DsResult.source = "calculated_estimate") <=> (DsResult.confidence = "low")
        /\ (DsResult.source = "unavailable")
              <=> (DsResult.confidence = "none" /\ IsNone(DsResult.dosing_info))

\* an unavailable result that followed a rejected calculation
C7_Witness ==
    /\ DsReturned
    /\ DsResult.source = "unavailable"
    /\ ~IsNone(DsResult.calculation_error)

(***************************************************************************)
(* Python dict, in insertion order: a sequence of [key, value] pairs       *)
(***************************************************************************)
DictHas(d, k) == \E i \in 1..Len(d) : d[i].key = k
\* d[k] = v: an existing key keeps its place, a new key goes last
DictSet(d, k, v) ==
    IF DictHas(d, k)
    THEN [i \in 1..Len(d) |-> IF d[i].key = k THEN [key |-> k, value |-> v] ELSE d[i]]
    ELSE Append(d, [key |-> k, value |-> v])

(***************************************************************************)
(* backend/util.py and CacheService (backend/services/cache_service.py)    *)
(***************************************************************************)
\* load_cached_labels: the mapping in the file; disk is kept as what this
\* returns (a missing or undecodable file reads as the empty mapping)
load_cached_labels(file) == file

\* save_cached_labels(labels), by how the write ends: "ok" writes the file and
\* returns True; "denied" (open() raises) leaves the file and returns False;
\* "truncated" (json.dump raises after open(..., 'w') emptied the file) leaves
\* an undecodable file and returns False
save_cached_labels(labels, file, write) ==
    [ success |-> write = "ok",
      file    |-> IF write = "ok" THEN labels
                  ELSE IF write = "denied" THEN file
                  ELSE <<>> ]

\* CacheService._load_cache: the dict, loaded from the file on first use
_load_cache(cache, file) ==
    IF IsNone(cache) THEN load_cached_labels(file) ELSE Val(cache)

\* get that compares the keys with brand_name as they are, without lower()
CacheGetExact(cache, brand_name) ==
    LET hits == {i \in 1..Len(cache) : cache[i].key = brand_name}
    IN  IF hits = {} THEN None
        ELSE Some(cache[CHOOSE i \in hits : \A j \in hits : i <= j].value)

\* CacheService.get: the value under the first key that equals brand_name
\* ignoring case, else None
CacheGet(cache, brand_name) ==
    LET hits == {i \in 1..Len(cache) : Lower(cache[i].key) = Lower(brand_name)}
    IN  IF hits = {} THEN None
        ELSE Some(cache[CHOOSE i \in hits : \A j \in hits : i <= j].value)

\* save that starts from an empty mapping: what was stored before is dropped
CacheSaveOnlyNew(cache, file, brand_name, products, write) ==
    LET updated == DictSet(<<>>, brand_name, products)
        saved == save_cached_labels(updated, file, write)
    IN  [cache |-> updated, file |-> saved.file, success |-> saved.success]

\* save that writes the updated mapping to the file and leaves self._cache as
\* it was
CacheSaveFileOnly(cache, file, brand_name, products, write) ==
    LET saved == save_cached_labels(DictSet(cache, brand_name, products), file, write)
    IN  [cache |-> cache, file |-> saved.file, success |-> saved.success]

\* CacheService.save: the dict after cache[brand_name] = products, the file and
\* the returned flag
CacheSave(cache, file, brand_name, products, write) ==
    LET updated == DictSet(cache, brand_name, products)
        saved == save_cached_labels(updated, file, write)
    IN  [cache |-> updated, file |-> saved.file, success |-> saved.success]

(***************************************************************************)
(* RxNormService (backend/services/drug_lookup/rxnorm_service.py)          *)
(***************************************************************************)
\* what the remote catalog holds for a name (its search ignores case)
CatalogProducts(brand_name) ==
    IF Lower(brand_name) = <<"t","y">>
    THEN << [name |-> "Tylenol 325 MG Oral Tablet", rxcui |-> "209387"],
            [name |-> "Tylenol 500 MG Oral Tablet", rxcui |-> "209459"] >>
    ELSE IF Lower(brand_name) = <<"a","d">>
    THEN << [name |-> "Advil 200 MG Oral Tablet", rxcui |-> "153010"] >>
    ELSE IF Lower(brand_name) = <<"l","i">>
    THEN << [name |-> "Lipitor 10 MG Oral Tablet", rxcui |-> "617312"],
            [name |-> "Lipitor 20 MG Oral Tablet", rxcui |-> "617310"],
            [name |-> "Lipitor 40 MG Oral Tablet", rxcui |-> "617314"] >>
    ELSE <<>>
CatalogGeneric(rxcui) == IF rxcui = "153010" THEN "ibuprofen" ELSE "acetaminophen"
CatalogNdcs(rxcui) == <<rxcui, "0">>

\* how the requests of one get_drug_details call end: the product query
\* ("timeout": httpx.TimeoutException, "rate_limited": HTTP 429 raised by
\* raise_for_status, "error": any other exception), the generic-name query,
\* and the NDC queries (all answered, or the one for the last product
\* failing); again is how the catalog would answer the product query if it
\* were sent once more
FetchOutcomes ==
    { [products |-> "ok",           generic |-> "ok",    ndc |-> "ok",    again |-> "ok"],
      [products |-> "ok",           generic |-> "error", ndc |-> "ok",    again |-> "ok"],
      [products |-> "ok",           generic |-> "ok",    ndc |-> "error", again |-> "ok"],
      [products |-> "timeout",      generic |-> "ok",    ndc |-> "ok",    again |-> "ok"],
      [products |-> "timeout",      generic |-> "ok",    ndc |-> "ok",    again |-> "timeout"],
      [products |-> "rate_limited", generic |-> "ok",    ndc |-> "ok",    again |-> "ok"],
      [products |-> "error",        generic |-> "ok",    ndc |-> "ok",    again |-> "ok"] }
\* every request of a call answered
AllAnswered == [products |-> "ok", generic |-> "ok", ndc |-> "ok", again |-> "ok"]

\* _fetch_products that answers from a stale response whatever the request did
_fetch_products_unchecked(brand_name, status) == CatalogProducts(brand_name)

\* RxNormService._fetch_products: the parsed products, [] on a timeout or any
\* other exception
_fetch_products(brand_name, status) ==
    IF status = "ok" THEN CatalogProducts(brand_name) ELSE <<>>

\* RxNormService._get_generic_name: the name, None on any exception
_get_generic_name(rxcui, status) ==
    IF status = "ok" THEN Some(CatalogGeneric(rxcui)) ELSE None

\* RxNormService.get_ndcs_for_rxcui: the NDC list, [] on any exception
get_ndcs_for_rxcui(rxcui, status) ==
    IF status = "ok" THEN CatalogNdcs(rxcui) ELSE <<>>

\* status of the NDC query of product i of n under outcome o
NdcStatus(o, i, n) == IF o.ndc = "error" /\ i = n THEN "error" ELSE "ok"

\* RxNormService.get_drug_details: None without products, else the dict
get_drug_details(brand_name, o) ==
    LET products == _fetch_products(brand_name, o.products)
    IN  IF Len(products) = 0 THEN None
        ELSE LET generic_name == _get_generic_name(products[1].rxcui, o.generic)
                 ndc_results == [i \in 1..Len(products) |->
                                    get_ndcs_for_rxcui(products[i].rxcui,
                                                       NdcStatus(o, i, Len(products)))]
             IN  Some([ shape        |-> "dict",
                        brand_name   |-> brand_name,
                        generic_name |-> generic_name,
                        products     |->
                            [i \in 1..Len(products) |->
                                [ name     |-> products[i].name,
                                  rxcui    |-> products[i].rxcui,
                                  ndc      |-> IF Len(ndc_results[i]) > 0
                                               THEN Some(ndc_results[i][1]) ELSE None,
                                  all_ndcs |-> ndc_results[i] ]] ])

\* whether an enrichment query (generic name, some NDC query) of the call failed
EnrichmentFailed(brand_name, o) ==
    /\ Len(_fetch_products(brand_name, o.products)) > 0
    /\ (o.generic = "error" \/ o.ndc = "error")

(***************************************************************************)
(* DrugLookupService.lookup_drug                                           *)
(* (backend/services/drug_lookup/drug_lookup_service.py)                   *)
(***************************************************************************)
Tasks == 1..NumTasks

TAG_INVALID == <<"i","n","v","a","l","i","d","_","i","n","p","u","t">>
TAG_API == <<"a","p","i">>
TAG_NOT_FOUND == <<"n","o","t","_","f","o","u","n","d">>
\* f"cache:{brand_name}"
CacheTag(brand_name) == <<"c","a","c","h","e",":">> \o brand_name

\* the tuple lookup_drug returns
Outcome(products, source, generic_name) ==
    [products |-> products, source |-> source, generic_name |-> generic_name]

\* `if cached:` - a dict entry always has keys, a list is true iff non-empty
Truthy(cached) ==
    /\ ~IsNone(cached)
    /\ (Val(cached).shape = "list" => Len(Val(cached).items) > 0)

\* a coroutine's locals; overlapped records whether another lookup_drug call
\* was in flight at any time during this one, repeat whether the call completed
\* last before this one started was for the same stripped name
IdleTask ==
    [pc |-> "idle", brand_name |-> <<>>, cached |-> None, overlapped |-> FALSE,
     repeat |-> FALSE]

\* what is recorded of a completed call: the stripped name, what the cache
\* read gave, the returned tuple, how often the catalog client was invoked,
\* whether an enrichment query failed, how the cache write ended ("none":
\* nothing was written), whether the call overlapped another one, and whether
\* it repeated the name of the call completed before it
Call(brand_name, cached, out, catalog_calls, enrich_failed, saved, overlapped, repeat) ==
    [ brand_name    |-> brand_name,
      cached        |-> cached,
      out           |-> out,
      catalog_calls |-> catalog_calls,
      enrich_failed |-> enrich_failed,
      saved         |-> saved,
      overlapped    |-> overlapped,
      repeat        |-> repeat ]

\* the call completed last was for this stripped name
Repeats(name) == ~IsNone(lastDone) /\ Val(lastDone).brand_name = name

InFlight(t) == tasks[t].pc = "fetching"
OthersInFlight(t) == \E u \in Tasks \ {t} : InFlight(u)

\* the brand names callers pass
BrandInputs ==
    { <<"T","y">>, <<" ","T","Y"," ">>, <<"A","d">>, <<"Z","z">>, <<" ">>, <<>> }

\* the cache file as the process finds it: empty, written by an earlier run
\* (a fetched dict), or written by an earlier version (a flat list of product
\* names); neither ever stored an empty product list
InitialFiles ==
    { <<>>,
      << [key |-> <<"T","Y">>, value |-> Val(get_drug_details(<<"T","Y">>, AllAnswered))] >>,
      << [key |-> <<"a","d">>,
          value |-> [shape |-> "list",
                     items |-> <<[name |-> "Advil 200 MG Oral Tablet"]>>]] >> }

LookupInit ==
    /\ mem = None
    /\ disk \in InitialFiles
    /\ tasks = [t \in Tasks |-> IdleTask]
    /\ lastDone = None
    /\ nCalls = 0

\* lookup_drug from its entry to its first await (lines 33-54): the blank
\* check, strip, the cache read and, on a hit, the return
LookupStart(t, brand_name) ==
    /\ tasks[t].pc = "idle"
    /\ nCalls < MaxCalls
    /\ nCalls' = nCalls + 1
    /\ UNCHANGED disk
    /\ IF Len(brand_name) = 0 \/ Len(Strip(brand_name)) = 0
       THEN /\ lastDone' = Some(Call(brand_name, None,
                                     Outcome(<<>>, TAG_INVALID, None), 0, FALSE, "none",
                                     OthersInFlight(t), Repeats(brand_name)))
            /\ UNCHANGED mem
            /\ tasks' = [u \in Tasks |->
                           IF InFlight(u) THEN [tasks[u] EXCEPT !.overlapped = TRUE]
                           ELSE tasks[u]]
       ELSE LET name == Strip(brand_name)
                cache == _load_cache(mem, disk)
                cached == CacheGet(cache, name)
            IN  /\ mem' = Some(cache)
                /\ IF Truthy(cached)
                   THEN /\ lastDone' = Some(Call(name, cached,
                               IF Val(cached).shape = "dict"
                               THEN Outcome(Val(cached).products, CacheTag(name),
                                            Val(cached).generic_name)
                               ELSE Outcome(Val(cached).items, CacheTag(name), None),
                               0, FALSE, "none", OthersInFlight(t), Repeats(name)))
                        /\ tasks' = [u \in Tasks |->
                               IF InFlight(u) THEN [tasks[u] EXCEPT !.overlapped = TRUE]
                               ELSE tasks[u]]
                   ELSE /\ tasks' = [u \in Tasks |->
                               IF u = t
                               THEN [ pc |-> "fetching", brand_name |-> name,
                                      cached |-> cached,
                                      overlapped |-> OthersInFlight(t),
                                      repeat |-> Repeats(name) ]
                               ELSE IF InFlight(u)
                               THEN [tasks[u] EXCEPT !.overlapped = TRUE]
                               ELSE tasks[u]]
                        /\ UNCHANGED lastDone
    /\ UNCHANGED <<dsVars, csVars, gdVars, clVars, pmVars, dcVars, apVars>>

\* get_drug_details has answered: lines 56-66, the cache write included; the
\* value CacheService.save returns is dropped (line 58)
LookupFinish(t, o, write) ==
    /\ tasks[t].pc = "fetching"
    /\ LET name == tasks[t].brand_name
           result == get_drug_details(name, o)
       IN  IF ~IsNone(result) /\ Len(Val(result).products) > 0
           THEN LET s == CacheSave(_load_cache(mem, disk), disk, name, Val(result), write)
                IN  /\ mem' = Some(s.cache)
                    /\ disk' = s.file
                    /\ lastDone' = Some(Call(name, tasks[t].cached,
                           Outcome(Val(result).products, TAG_API, Val(result).generic_name),
                           1, EnrichmentFailed(name, o),
                           IF s.success THEN "ok" ELSE "failed",
                           tasks[t].overlapped, tasks[t].repeat))
           ELSE /\ lastDone' = Some(Call(name, tasks[t].cached,
                           Outcome(<<>>, TAG_NOT_FOUND, None), 1, FALSE, "none",
                           tasks[t].overlapped, tasks[t].repeat))
                /\ UNCHANGED <<mem, disk>>
    /\ tasks' = [tasks EXCEPT ![t] = IdleTask]
    /\ UNCHANGED <<nCalls, dsVars, csVars, gdVars, clVars, pmVars, dcVars, apVars>>

WriteOutcomes == {"ok", "denied", "truncated"}
\* the cache file is written only after a fetch that gave products
WritesOf(o) == IF o.products = "ok" THEN WriteOutcomes ELSE {"ok"}

InitLookup == DosageInit /\ LookupInit /\ CacheIdle /\ FanIdle /\ RestIdle

NextLookup ==
    \/ \E t \in Tasks, brand_name \in BrandInputs : LookupStart(t, brand_name)
    \/ \E t \in Tasks, o \in FetchOutcomes :
           \E write \in WritesOf(o) : LookupFinish(t, o, write)

SpecLookup == InitLookup /\ [][NextLookup]_vars

(***************************************************************************)
(* Claims about DrugLookupService.lookup_drug                              *)
(***************************************************************************)
NothingInFlight == \A u \in Tasks : ~InFlight(u)
StartsWith(s, prefix) == Len(s) >= Len(prefix) /\ SubSeq(s, 1, Len(prefix)) = prefix

\* C8: round trip of two calls in sequence. When the last completed call
\* looked a name up that had no cache entry, ran with no other lookup in
\* flight and returned the tag api, the next lookup_drug of the same name
\* returns at once with a tag starting with cache:, the same products and
\* generic name, and without invoking the catalog client.
C8_RoundTrip ==
    [][ \A t \in Tasks, b \in BrandInputs :
          ( /\ NothingInFlight
            /\ ~IsNone(lastDone)
            /\ Val(lastDone).out.source = TAG_API
            /\ IsNone(Val(lastDone).cached)
            /\ ~Val(lastDone).overlapped
            /\ Strip(b) = Val(lastDone).brand_name
            /\ LookupStart(t, b) )
          => /\ \A u \in Tasks : ~InFlight(u)'
             /\ StartsWith(Val(lastDone').out.source, <<"c","a","c","h","e",":">>)
             /\ Val(lastDone').out.products = Val(lastDone).out.products
             /\ Val(lastDone').out.generic_name = Val(lastDone).out.generic_name
             /\ Val(lastDone').catalog_calls = 0 ]_vars

\* the second of two calls is a cache hit on the name the first one fetched:
\* the entry it returns is the fetched dict, kept under that very name
C8_Witness ==
    /\ nCalls = 2
    /\ ~IsNone(lastDone)
    /\ StartsWith(Val(lastDone).out.source, <<"c","a","c","h","e",":">>)
    /\ ~IsNone(Val(lastDone).cached)
    /\ Val(Val(lastDone).cached).shape = "dict"
    /\ Val(Val(lastDone).cached).brand_name = Val(lastDone).brand_name
    /\ ~IsNone(mem)
    /\ \A i \in 1..Len(Val(mem)) :
          Lower(Val(mem)[i].key) = Lower(Val(lastDone).brand_name)
             => Val(mem)[i].key = Val(lastDone).brand_name

\* C9: nothing is written to the cache, in memory or in the file, by a call
\* in which the generic-name query or an NDC query failed.
C9_NoPartialCache ==
    [][ \A t \in Tasks, o \in FetchOutcomes, write \in WriteOutcomes :
          (LookupFinish(t, o, write) /\ EnrichmentFailed(tasks[t].brand_name, o))
          => (mem' = mem /\ disk' = disk) ]_vars

\* C10: a call whose cache write failed reports an outcome that differs from
\* the outcome reported by a call whose cache write succeeded.
C10_FailedWriteReported ==
    [][ ( /\ ~IsNone(lastDone) /\ ~IsNone(lastDone')
          /\ Val(lastDone).saved = "ok"
          /\ Val(lastDone').saved = "failed" )
        => Val(lastDone').out # Val(lastDone).out ]_vars

\* a name that is empty or consists of white space only
IsBlank(b) == \A i \in 1..Len(b) : IsSpace(b[i])
\* the mapping the cache service holds (the file's, as long as it was not loaded)
CacheContent == _load_cache(mem, disk)
\* products and generic name kept in a cache entry of either format
EntryProducts(v) == IF v.shape = "dict" THEN v.products ELSE v.items
EntryGeneric(v) == IF v.shape = "dict" THEN v.generic_name ELSE None

\* C11: lookup_drug of an empty or whitespace-only name returns no products,
\* the tag invalid_input and no generic name, reads no cache (the cache is not
\* even loaded), invokes no catalog client and leaves memory and file as
\* they were.
C11_BlankRejected ==
    [][ \A t \in Tasks, b \in BrandInputs :
          (IsBlank(b) /\ LookupStart(t, b))
          => /\ ~IsNone(lastDone')
             /\ Val(lastDone').out = Outcome(<<>>, TAG_INVALID, None)
             /\ IsNone(Val(lastDone').cached)
             /\ Val(lastDone').catalog_calls = 0
             /\ ~InFlight(t)'
             /\ mem' = mem
             /\ disk' = disk ]_vars

\* a whitespace-only name was rejected by a service whose cache was never loaded
C11_Witness ==
    /\ ~IsNone(lastDone)
    /\ Val(lastDone).brand_name = <<" ">>
    /\ Val(lastDone).out.source = TAG_INVALID
    /\ IsNone(mem)

\* C12: when the cache holds an entry under some case variant of the trimmed
\* name, lookup_drug returns the products and generic name of such an entry
\* with the tag cache:<trimmed name>, does not invoke the catalog client, and
\* leaves the mapping in memory and the file unchanged.
C12_CacheHit ==
    [][ \A t \in Tasks, b \in BrandInputs :
          ( /\ ~IsBlank(b)
            /\ \E i \in 1..Len(CacheContent) :
                   Lower(CacheContent[i].key) = Lower(Strip(b))
            /\ LookupStart(t, b) )
          => /\ ~IsNone(lastDone')
             /\ Val(lastDone').out.source = <<"c","a","c","h","e",":">> \o Strip(b)
             /\ \E i \in 1..Len(CacheContent) :
                   /\ Lower(CacheContent[i].key) = Lower(Strip(b))
                   /\ Val(lastDone').out.products = EntryProducts(CacheContent[i].value)
                   /\ Val(lastDone').out.generic_name = EntryGeneric(CacheContent[i].value)
             /\ Val(lastDone').catalog_calls = 0
             /\ ~InFlight(t)'
             /\ CacheContent' = CacheContent
             /\ disk' = disk ]_vars

\* a hit on Ty served from the entry stored under TY
C12_Witness ==
    /\ ~IsNone(lastDone)
    /\ Val(lastDone).brand_name = <<"T","y">>
    /\ Val(lastDone).out.source = <<"c","a","c","h","e",":","T","y">>
    /\ ~IsNone(Val(lastDone).cached)
    /\ Val(Val(lastDone).cached).shape = "dict"
    /\ Val(Val(lastDone).cached).brand_name = <<"T","Y">>
    /\ Val(lastDone).out.products = Val(Val(lastDone).cached).products

\* the catalog gives no products for a call: it has none for the name, or the
\* product query failed
NoProducts(name, o) == CatalogProducts(name) = <<>> \/ o.products # "ok"

\* C13: a lookup that missed the cache and got no products from the catalog
\* returns no products with the tag not_found and writes nothing, in memory or
\* in the file; the next lookup of the same name, with no other call in
\* between or overlapping, goes to the catalog again.
C13_NotFoundNotCached ==
    [][ /\ \A t \in Tasks, o \in FetchOutcomes, write \in WriteOutcomes :
              (LookupFinish(t, o, write) /\ NoProducts(tasks[t].brand_name, o))
              => /\ Val(lastDone').out = Outcome(<<>>, TAG_NOT_FOUND, None)
                 /\ mem' = mem
                 /\ disk' = disk
        /\ \A t \in Tasks, b \in BrandInputs :
              ( /\ NothingInFlight
                /\ ~IsNone(lastDone)
                /\ Val(lastDone).out.source = TAG_NOT_FOUND
                /\ ~Val(lastDone).overlapped
                /\ Strip(b) = Val(lastDone).brand_name
                /\ LookupStart(t, b) )
              => /\ InFlight(t)'
                 /\ lastDone' = lastDone ]_vars

\* a second lookup of a name, right after one that was not found, went to the
\* catalog and was not found again
C13_Witness ==
    /\ ~IsNone(lastDone)
    /\ Val(lastDone).out.source = TAG_NOT_FOUND
    /\ Val(lastDone).repeat
    /\ ~Val(lastDone).overlapped
    /\ Val(lastDone).catalog_calls = 1

\* C20: a product query that ends in a timeout or a rate-limit status is sent
\* again (up to 3 attempts), so a fetch whose first attempt fails that way and
\* whose next attempt would be answered returns the catalog's products, not
\* not_found.
C20_TransientRetried ==
    [][ \A t \in Tasks, o \in FetchOutcomes, write \in WriteOutcomes :
          ( /\ LookupFinish(t, o, write)
            /\ o.products \in {"timeout", "rate_limited"}
            /\ o.again = "ok"
            /\ CatalogProducts(tasks[t].brand_name) # <<>> )
          => /\ Val(lastDone').out.source = TAG_API
             /\ Len(Val(lastDone').out.products)
                  = Len(CatalogProducts(tasks[t].brand_name)) ]_vars

\* the mapping d holds key k exactly once, with these products and generic name
HoldsEntry(d, k, products, generic_name) ==
    /\ Cardinality({i \in 1..Len(d) : d[i].key = k}) = 1
    /\ \A i \in 1..Len(d) :
          d[i].key = k => /\ EntryProducts(d[i].value) = products
                          /\ EntryGeneric(d[i].value) = generic_name

\* C18: when a lookup of an uncached name that overlapped another lookup
\* saves its fetched entry (the file write succeeding), and the call completed
\* before it was such a lookup too, then memory and file hold this call's
\* entry under its name exactly once and unmerged, and, if the earlier call
\* was for a different name, its entry as well: no update is lost, and for
\* the same name the entry is the one saved last.
C18_ConcurrentSaves ==
    [][ \A t \in Tasks, o \in FetchOutcomes, write \in WriteOutcomes :
          ( /\ LookupFinish(t, o, write)
            /\ write = "ok"
            /\ ~NoProducts(tasks[t].brand_name, o)
            /\ tasks[t].overlapped
            /\ IsNone(tasks[t].cached)
            /\ ~IsNone(lastDone)
            /\ Val(lastDone).overlapped
            /\ IsNone(Val(lastDone).cached)
            /\ Val(lastDone).out.source = TAG_API )
          => LET mine == Val(lastDone')
                 other == Val(lastDone)
             IN  /\ mine.brand_name = tasks[t].brand_name
                 /\ mine.out.source = TAG_API
                 /\ HoldsEntry(Val(mem'), mine.brand_name,
                               mine.out.products, mine.out.generic_name)
                 /\ HoldsEntry(disk', mine.brand_name,
                               mine.out.products, mine.out.generic_name)
                 /\ other.brand_name # mine.brand_name
                      => /\ HoldsEntry(Val(mem'), other.brand_name,
                                       other.out.products, other.out.generic_name)
                         /\ HoldsEntry(disk', other.brand_name,
                                       other.out.products, other.out.generic_name) ]_vars

\* two overlapping lookups of Ty and Ad, both fetched: memory and file hold
\* both entries
C18_Witness ==
    /\ nCalls = 2
    /\ NothingInFlight
    /\ ~IsNone(lastDone)
    /\ Val(lastDone).overlapped
    /\ Val(lastDone).out.source = TAG_API
    /\ ~IsNone(mem)
    /\ {Val(mem)[i].key : i \in 1..Len(Val(mem))} = {<<"T","y">>, <<"A","d">>}
    /\ \A i \in 1..Len(Val(mem)) : Val(mem)[i].value.shape = "dict"
    /\ disk = Val(mem)

(***************************************************************************)
(* CacheService used directly: save, get, clear, seed_common_drugs         *)
(* (backend/services/cache_service.py)                                     *)
(***************************************************************************)
\* how a call that touches the file ends: as WriteOutcomes, or "nodir":
\* ensure_data_directory() raises (os.makedirs cannot create data/), which
\* load_cached_labels and save_cached_labels call outside their try blocks
StoreOutcomes == WriteOutcomes \cup {"nodir"}

\* clear that empties the file and leaves self._cache as it was
CacheClearFileOnly(cache, file, write) ==
    LET saved == save_cached_labels(<<>>, file, write)
    IN  [cache |-> cache, file |-> saved.file, success |-> saved.success]

\* CacheService.clear: self._cache = {} and the flag of save_cached_labels({})
CacheClear(cache, file, write) ==
    LET saved == save_cached_labels(<<>>, file, write)
    IN  [cache |-> <<>>, file |-> saved.file, success |-> saved.success]

\* the names save and get are called with, and the entries saved: what
\* get_drug_details returned for the name, fully enriched or (for Ty) without
\* the generic name
CacheNames == { <<"T","y">>, <<"t","y">> }
SavedNames == { <<"T","y">>, <<"T","Y">> }
EntriesFor(name) ==
    { Val(get_drug_details(name, o)) :
        o \in IF name = <<"T","y">>
              THEN { AllAnswered,
                     [products |-> "ok", generic |-> "error", ndc |-> "ok", again |-> "ok"] }
              ELSE { AllAnswered } }

\* common_drugs of seed_common_drugs (two of its names, as the model spells them)
COMMON_DRUGS == << <<"A","d">>, <<"T","y">> >>

\* RxNormService.fetch_products of backend/services/rxnorm_service.py, which
\* the cache service seeds with: the product names, [] on any request error
fetch_products(brand_name, status) ==
    IF status = "ok"
    THEN [i \in 1..Len(CatalogProducts(brand_name)) |->
             [name |-> CatalogProducts(brand_name)[i].name]]
    ELSE <<>>

\* the loop of seed_common_drugs over common_drugs[k..]: a name that is no key
\* of the dict (compared as it is) and for which products come back is added
RECURSIVE SeedLoop(_, _, _)
SeedLoop(cache, k, status) ==
    IF k > Len(COMMON_DRUGS) THEN cache
    ELSE LET drug == COMMON_DRUGS[k]
             products == fetch_products(drug, status[k])
         IN  IF ~DictHas(cache, drug) /\ Len(products) > 0
             THEN SeedLoop(DictSet(cache, drug, [shape |-> "list", items |-> products]),
                           k + 1, status)
             ELSE SeedLoop(cache, k + 1, status)

\* what an operation returned
Ret(op, name, value, success, raised) ==
    [op |-> op, name |-> name, value |-> value, success |-> success, raised |-> raised]

\* the successful save still in force after a save of name: none if that
\* save was of a case variant of it
StillSaved(name) ==
    IF ~IsNone(csLast.saved) /\ Lower(Val(csLast.saved).name) # Lower(name)
    THEN csLast.saved ELSE None

CacheInit ==
    /\ mem = None
    /\ disk \in InitialFiles
    /\ tasks = <<>>
    /\ lastDone = None
    /\ nCalls = 0
    /\ CacheIdle

\* CacheService.save(brand_name, products). With "nodir" the call raises: from
\* _load_cache when the dict was not loaded yet (nothing changes), else from
\* save_cached_labels, after the dict was updated
CsSave(brand_name, products, write) ==
    /\ IF write = "nodir"
       THEN /\ mem' = IF IsNone(mem) THEN mem
                      ELSE Some(DictSet(Val(mem), brand_name, products))
            /\ disk' = disk
            /\ csLast' = [ saved   |-> StillSaved(brand_name),
                           cleared |-> FALSE,
                           ret     |-> Ret("save", brand_name, None, FALSE, TRUE) ]
       ELSE LET s == CacheSave(_load_cache(mem, disk), disk, brand_name, products, write)
            IN  /\ mem' = Some(s.cache)
                /\ disk' = s.file
                /\ csLast' = [ saved   |-> IF s.success
                                           THEN Some([name |-> brand_name, entry |-> products])
                                           ELSE StillSaved(brand_name),
                               cleared |-> FALSE,
                               ret     |-> Ret("save", brand_name, None, s.success, FALSE) ]
    /\ UNCHANGED <<dsVars, tasks, lastDone, nCalls, gdVars, clVars, pmVars, dcVars, apVars>>

\* CacheService.get(brand_name)
CsGet(brand_name) ==
    /\ mem' = Some(_load_cache(mem, disk))
    /\ csLast' = [csLast EXCEPT !.ret =
                     Ret("get", brand_name, CacheGet(_load_cache(mem, disk), brand_name),
                         TRUE, FALSE)]
    /\ UNCHANGED <<disk, dsVars, tasks, lastDone, nCalls, gdVars, clVars, pmVars, dcVars, apVars>>

\* CacheService.clear(). With "nodir" save_cached_labels raises after
\* self._cache = {}
CsClear(write) ==
    /\ IF write = "nodir"
       THEN /\ mem' = Some(<<>>)
            /\ disk' = disk
            /\ csLast' = [ saved |-> None, cleared |-> FALSE,
                           ret |-> Ret("clear", <<>>, None, FALSE, TRUE) ]
       ELSE LET c == CacheClear(_load_cache(mem, disk), disk, write)
            IN  /\ mem' = Some(c.cache)
                /\ disk' = c.file
                /\ csLast' = [ saved |-> None, cleared |-> c.success,
                               ret |-> Ret("clear", <<>>, None, c.success, FALSE) ]
    /\ UNCHANGED <<dsVars, tasks, lastDone, nCalls, gdVars, clVars, pmVars, dcVars, apVars>>

\* CacheService.seed_common_drugs(): fetch_products has no await inside, so
\* the loop runs without giving up the event loop; the dict it fills is
\* self._cache itself; the flag of save_cached_labels is dropped
CsSeed(status, write) ==
    /\ IF write = "nodir" /\ IsNone(mem)
       THEN /\ UNCHANGED <<mem, disk>>
            /\ csLast' = [csLast EXCEPT !.cleared = FALSE,
                                        !.ret = Ret("seed", <<>>, None, FALSE, TRUE)]
       ELSE LET cache == SeedLoop(_load_cache(mem, disk), 1, status)
            IN  /\ mem' = Some(cache)
                /\ IF write = "nodir"
                   THEN disk' = disk
                   ELSE disk' = save_cached_labels(cache, disk, write).file
                /\ csLast' = [csLast EXCEPT !.cleared = FALSE,
                                            !.ret = Ret("seed", <<>>, None, TRUE,
                                                        write = "nodir")]
    /\ UNCHANGED <<dsVars, tasks, lastDone, nCalls, gdVars, clVars, pmVars, dcVars, apVars>>

\* how the product requests of one seeding end, one per name of common_drugs
SeedAnswers == { <<"ok", "ok">>, <<"error", "ok">> }

InitCache == DosageInit /\ CacheInit /\ FanIdle /\ RestIdle

NextCache ==
    \/ \E brand_name \in SavedNames, write \in StoreOutcomes :
           \E products \in EntriesFor(brand_name) : CsSave(brand_name, products, write)
    \/ \E brand_name \in CacheNames : CsGet(brand_name)
    \/ \E write \in StoreOutcomes : CsClear(write)
    \/ \E status \in SeedAnswers, write \in {"ok", "nodir"} :
           CsSeed(status, write)

SpecCache == InitCache /\ [][NextCache]_vars

(***************************************************************************)
(* Claims about CacheService                                               *)
(***************************************************************************)
\* C14: once save(b, e) has returned success, and until a case variant of b
\* is saved again or the cache is cleared, get of any case variant of b
\* returns e, whatever was saved earlier.
C14_CaseInsensitiveGet ==
    ( /\ csLast.ret.op = "get"
      /\ ~IsNone(csLast.saved)
      /\ Lower(csLast.ret.name) = Lower(Val(csLast.saved).name) )
    => csLast.ret.value = Some(Val(csLast.saved).entry)

\* no two keys of the mapping are equal ignoring case
KeysUniqueIgnoringCase(d) ==
    \A i, j \in 1..Len(d) : Lower(d[i].key) = Lower(d[j].key) => i = j

\* C15: the cache, in memory and in the file, never holds two keys that are
\* equal ignoring case; after a save the one key equal to the saved name
\* ignoring case is spelled as the save spelled it.
C15_KeysUnique ==
    /\ KeysUniqueIgnoringCase(CacheContent)
    /\ KeysUniqueIgnoringCase(disk)
    /\ (csLast.ret.op = "save" /\ csLast.ret.success)
          => \A i \in 1..Len(CacheContent) :
                Lower(CacheContent[i].key) = Lower(csLast.ret.name)
                   => CacheContent[i].key = csLast.ret.name

\* C16: save never raises; when it returns success the file holds the whole
\* mapping of the service, the saved name and entry included; when the file
\* cannot be written it returns failure.
C16_SaveWriteThrough ==
    csLast.ret.op = "save" =>
        /\ ~csLast.ret.raised
        /\ csLast.ret.success =>
              /\ disk = CacheContent
              /\ ~IsNone(csLast.saved)
              /\ \E i \in 1..Len(disk) :
                    /\ disk[i].key = csLast.ret.name
                    /\ disk[i].value = Val(csLast.saved).entry

\* C17: after clear() has returned success, and until the next save or
\* seeding, the service holds no entry, get returns None for every name, and
\* the file holds the empty mapping.
C17_ClearRemovesAll ==
    csLast.cleared =>
        /\ CacheContent = <<>>
        /\ disk = <<>>
        /\ \A b \in CacheNames : IsNone(CacheGet(CacheContent, b))
        /\ csLast.ret.op = "get" => IsNone(csLast.ret.value)

\* a get made after a successful clear
C17_Witness ==
    /\ csLast.cleared
    /\ csLast.ret.op = "get"
    /\ csLast.ret.name = <<"T","y">>
    /\ IsNone(csLast.ret.value)

(***************************************************************************)
(* RxNormService.get_drug_details, step by step: the product query, the    *)
(* generic-name query, then one NDC query per product run together and     *)
(* joined by asyncio.gather (lines 26-48)                                  *)
(***************************************************************************)
FanNames == { <<"T","y">>, <<"A","d">>, <<"L","i">>, <<"Z","z">> }

\* gather that hands the results back in the order the queries completed
GatherAsCompleted(answers, order) ==
    [k \in 1..Len(order) |-> answers[order[k]].ndcs]

\* await asyncio.gather(*ndc_tasks): the results in the order of ndc_tasks,
\* whatever the order the queries completed in
Gather(answers, order) ==
    [k \in 1..Len(order) |-> answers[k].ndcs]

\* lines 26-36: products are fetched; without products the call returns None;
\* else the generic name is fetched and one NDC query per product is created
GdStart(brand_name, products_status, generic_status) ==
    /\ fan.pc = "idle"
    /\ LET products == _fetch_products(brand_name, products_status)
       IN  IF Len(products) = 0
           THEN fan' = [fan EXCEPT !.pc = "done", !.brand_name = brand_name]
           ELSE fan' = [ pc           |-> "gathering",
                         brand_name   |-> brand_name,
                         products     |-> products,
                         generic_name |-> _get_generic_name(products[1].rxcui,
                                                            generic_status),
                         pending      |-> 1..Len(products),
                         answers      |-> [i \in 1..Len(products) |->
                                             [rxcui |-> "", ndcs |-> <<>>]],
                         order        |-> <<>>,
                         result       |-> None ]
    /\ UNCHANGED <<dsVars, luVars, csVars, clVars, pmVars, dcVars, apVars>>

\* the NDC query of product i completes: get_ndcs_for_rxcui returns
GdNdcDone(i, status) ==
    /\ fan.pc = "gathering"
    /\ i \in fan.pending
    /\ fan' = [fan EXCEPT
                 !.pending = @ \ {i},
                 !.answers[i] = [ rxcui |-> fan.products[i].rxcui,
                                  ndcs  |-> get_ndcs_for_rxcui(fan.products[i].rxcui,
                                                               status) ],
                 !.order = Append(@, i)]
    /\ UNCHANGED <<dsVars, luVars, csVars, clVars, pmVars, dcVars, apVars>>

\* gather returns once every query has completed; lines 40-48 attach the
\* results to the products pairwise (zip) and return the dict
GdReturn ==
    /\ fan.pc = "gathering"
    /\ fan.pending = {}
    /\ LET ndc_results == Gather(fan.answers, fan.order)
       IN  fan' = [fan EXCEPT
                     !.pc = "done",
                     !.result = Some([ shape        |-> "dict",
                                       brand_name   |-> fan.brand_name,
                                       generic_name |-> fan.generic_name,
                                       products     |->
                                         [i \in 1..Len(fan.products) |->
                                            [ name     |-> fan.products[i].name,
                                              rxcui    |-> fan.products[i].rxcui,
                                              ndc      |-> IF Len(ndc_results[i]) > 0
                                                           THEN Some(ndc_results[i][1])
                                                           ELSE None,
                                              all_ndcs |-> ndc_results[i] ]] ])]
    /\ UNCHANGED <<dsVars, luVars, csVars, clVars, pmVars, dcVars, apVars>>

InitFanout == DosageInit /\ LookupIdle /\ CacheIdle /\ FanIdle /\ RestIdle

NextFanout ==
    \/ \E brand_name \in FanNames, products_status \in {"ok", "timeout"},
          generic_status \in {"ok", "error"} :
           GdStart(brand_name, products_status, generic_status)
    \/ \E i \in fan.pending, status \in {"ok", "error"} : GdNdcDone(i, status)
    \/ GdReturn

SpecFanout == InitFanout /\ [][NextFanout]_vars

\* C19: get_drug_details issues one NDC query per product, returns only when
\* every one of them has completed, and in the returned dict each product
\* carries the NDC list that came back for its own rxcui, in whatever order
\* the queries completed.
C19_FanOutPairing ==
    /\ fan.pc = "gathering" =>
          /\ Len(fan.answers) = Len(fan.products)
          /\ fan.pending \cup {fan.order[k] : k \in 1..Len(fan.order)}
               = 1..Len(fan.products)
    /\ (fan.pc = "done" /\ ~IsNone(fan.result)) =>
          /\ fan.pending = {}
          /\ Len(fan.order) = Len(fan.products)
          /\ Len(Val(fan.result).products) = Len(fan.products)
          /\ \A i \in 1..Len(Val(fan.result).products) :
                LET p == Val(fan.result).products[i]
                IN  /\ p.rxcui = fan.products[i].rxcui
                    /\ \E j \in 1..Len(fan.answers) :
                          /\ fan.answers[j].rxcui = p.rxcui
                          /\ p.all_ndcs = fan.answers[j].ndcs
                          /\ p.ndc = IF Len(fan.answers[j].ndcs) > 0
                                     THEN Some(fan.answers[j].ndcs[1]) ELSE None

\* three products whose queries completed last-first, one of them failing
C19_Witness ==
    /\ fan.pc = "done"
    /\ ~IsNone(fan.result)
    /\ fan.order = <<3, 2, 1>>
    /\ Val(fan.result).products[1].all_ndcs = <<"617312", "0">>
    /\ Val(fan.result).products[2].all_ndcs = <<>>
    /\ Val(fan.result).products[3].all_ndcs = <<"617314", "0">>

(***************************************************************************)
(* The remote clients: OpenFDAService.get_drug_info's retry loop           *)
(* (backend/services/openfda_service.py; the loop of                       *)
(* backend/services/dosage/openfda_service.py _execute_query is the same)  *)
(* and RxNormService._fetch_products                                       *)
(* (backend/services/drug_lookup/rxnorm_service.py)                        *)
(***************************************************************************)
MAX_RETRIES == 3

\* two records of the openFDA index, one with dosing text and one without
SampleLabels ==
    { [ purpose                   |-> None,
        dosage_and_administration |-> d,
        pediatric_use             |-> None,
        warnings                  |-> None,
        contraindications         |-> None,
        adverse_reactions         |-> None ] :
      d \in {None, Some(<< <<"5"," ","m","g","/","k","g">> >>)} }

\* how one GET of the label client can end: a response with its status code
\* and, for 200, the "results" of its JSON body; httpx.TimeoutException; any
\* other exception (connection error, a body that is not JSON)
LabelResponses ==
    {[kind |-> "status", code |-> 200, results |-> r] :
        r \in {<<>>} \cup {<<raw>> : raw \in SampleLabels}}
    \cup {[kind |-> "status", code |-> c, results |-> <<>>] : c \in {404, 429, 500}}
    \cup {[kind |-> k, code |-> 0, results |-> <<>>] : k \in {"timeout", "exception"}}

\* a rate-limit status or a timeout: the outcomes the loop retries
Transient(r) == (r.kind = "status" /\ r.code = 429) \/ r.kind = "timeout"

\* the loop that lets one more attempt through than range(max_retries)
InRangeOneMore(attempt) == attempt <= MAX_RETRIES

\* for attempt in range(self.max_retries): whether the loop body runs again
InRange(attempt) == attempt < MAX_RETRIES

\* the delay slept after a 429 (line 66) and after a timeout (line 74)
RateLimitDelay(attempt) == 2 ^ attempt
TimeoutDelay(attempt) == 1

\* the loop body that treats every status other than 200 as worth a retry
LoopBodyRetryAll(attempt, r) ==
    IF r.kind = "status" /\ r.code = 200
    THEN [ returns |-> TRUE, delay |-> None,
           value |-> IF Len(r.results) > 0
                     THEN Some(_parse_label(r.results[1])) ELSE None ]
    ELSE IF r.kind = "status"
    THEN [returns |-> FALSE, delay |-> Some(RateLimitDelay(attempt)), value |-> None]
    ELSE IF r.kind = "timeout" /\ attempt < MAX_RETRIES - 1
    THEN [returns |-> FALSE, delay |-> Some(TimeoutDelay(attempt)), value |-> None]
    ELSE [returns |-> TRUE, delay |-> None, value |-> None]

\* one pass through the loop body (lines 50-79) for the response r of the
\* attempt-th request: whether the function returns from inside the loop,
\* what it returns then, and the delay slept before "continue"
LoopBody(attempt, r) ==
    IF r.kind = "status" /\ r.code = 200
    THEN [ returns |-> TRUE, delay |-> None,
           value |-> IF Len(r.results) > 0
                     THEN Some(_parse_label(r.results[1])) ELSE None ]
    ELSE IF r.kind = "status" /\ r.code = 404
    THEN [returns |-> TRUE, delay |-> None, value |-> None]
    ELSE IF r.kind = "status" /\ r.code = 429
    THEN [returns |-> FALSE, delay |-> Some(RateLimitDelay(attempt)), value |-> None]
    ELSE IF r.kind = "status"
    THEN [returns |-> TRUE, delay |-> None, value |-> None]
    ELSE IF r.kind = "timeout"
    THEN IF attempt < MAX_RETRIES - 1
         THEN [returns |-> FALSE, delay |-> Some(TimeoutDelay(attempt)), value |-> None]
         ELSE [returns |-> TRUE, delay |-> None, value |-> None]
    ELSE [returns |-> TRUE, delay |-> None, value |-> None]

\* get_drug_info is called (lines 37-49): a blank name returns None without
\* a request; otherwise the loop is entered with attempt 0
LcStart(drug_name) ==
    /\ lc.pc = "idle"
    /\ lc' = IF Len(drug_name) = 0 \/ Len(Strip(drug_name)) = 0
             THEN [lc EXCEPT !.pc = "done", !.drug_name = drug_name]
             ELSE [lc EXCEPT !.pc = "request", !.drug_name = drug_name]
    /\ UNCHANGED <<dsVars, luVars, csVars, gdVars, cc, pmVars, dcVars, apVars>>

\* the request of the current attempt ends with r and the loop body runs:
\* the call returns, or sleeps and goes on to the next attempt, or leaves
\* the loop at its ceiling and returns None (line 81)
LcRespond(r) ==
    /\ lc.pc = "request"
    /\ LET b == LoopBody(lc.attempt, r)
           slept == IF IsNone(b.delay) THEN lc.delays
                    ELSE Append(lc.delays, Val(b.delay))
           goes_on == ~b.returns /\ InRange(lc.attempt + 1)
       IN  lc' = [ lc EXCEPT
                     !.pc = IF goes_on THEN "request" ELSE "done",
                     !.attempt = IF b.returns THEN lc.attempt ELSE lc.attempt + 1,
                     !.requests = lc.requests + 1,
                     !.responses = Append(lc.responses, r),
                     !.delays = slept,
                     !.result = IF b.returns THEN b.value ELSE None ]
    /\ UNCHANGED <<dsVars, luVars, csVars, gdVars, cc, pmVars, dcVars, apVars>>

\* ---- the catalog client
\* concepts of a drugs.json response: "synonym" is often the empty string
Concept(name, synonym, rxcui) == [name |-> name, synonym |-> synonym, rxcui |-> rxcui]
Group(tty, conceptProperties) == [tty |-> tty, conceptProperties |-> conceptProperties]

\* concept groups a response may hold: branded products, the same product
\* name under a second concept, a group of another term type (ingredient),
\* a concept without a name, a group without concepts
GroupPool ==
    { Group("SBD", << Concept("Tylenol 325 MG Oral Tablet", "", "209387"),
                      Concept("Tylenol 500 MG Oral Tablet", "", "209459") >>),
      Group("SBD", << Concept("acetaminophen 325 MG Oral Tablet [Tylenol]",
                              "Tylenol 325 MG Oral Tablet", "1738139") >>),
      Group("SCD", << Concept("Tylenol 500 MG Oral Tablet", "", "209459"),
                      Concept("", "", "198440") >>),
      Group("IN",  << Concept("acetaminophen", "", "161") >>),
      Group("BN",  <<>>) }

\* groups in one response
MaxGroups == 2

\* data["drugGroup"]["conceptGroup"] of a response body
CatalogData == SeqsUpTo(GroupPool, MaxGroups)

\* how the GET of _fetch_products can end: a status with, for 200, the
\* parsed JSON body; httpx.TimeoutException; any other exception
CatalogResponses ==
    {[kind |-> "status", code |-> 200, data |-> d] : d \in CatalogData}
    \cup {[kind |-> "status", code |-> c, data |-> <<>>] : c \in {404, 429, 500}}
    \cup {[kind |-> k, code |-> 0, data |-> <<>>] : k \in {"timeout", "exception"}}

\* the concepts of all groups, in response order, each with its group's tty
RECURSIVE Concepts(_)
Concepts(data) ==
    IF Len(data) = 0 THEN <<>>
    ELSE [i \in 1..Len(data[1].conceptProperties) |->
             [tty |-> data[1].tty, concept |-> data[1].conceptProperties[i]]]
         \o Concepts(Tail(data))

\* concept.get("synonym") or concept.get("name")
NameOf(concept) == IF concept.synonym # "" THEN concept.synonym ELSE concept.name

\* RxNormService._parse_products (drug_lookup/rxnorm_service.py): every
\* concept with a name and an rxcui, of every group
RECURSIVE ParseAll(_)
ParseAll(cs) ==
    IF Len(cs) = 0 THEN <<>>
    ELSE LET c == cs[1].concept
         IN  (IF NameOf(c) # "" /\ c.rxcui # ""
              THEN <<[name |-> NameOf(c), rxcui |-> c.rxcui]>> ELSE <<>>)
             \o ParseAll(Tail(cs))
_parse_products(data) == ParseAll(Concepts(data))

\* RxNormService._parse_products of the older client
\* (services/rxnorm_service.py): names of the SBD, BN and SCD groups, a
\* name appended only when not in the list yet
RECURSIVE ParseNames(_, _)
ParseNames(cs, products) ==
    IF Len(cs) = 0 THEN products
    ELSE LET name == NameOf(cs[1].concept)
             seen == \E i \in 1..Len(products) : products[i] = name
         IN  ParseNames(Tail(cs),
                        IF cs[1].tty \in {"SBD", "BN", "SCD"} /\ name # "" /\ ~seen
                        THEN Append(products, name) ELSE products)
parse_product_names(data) == ParseNames(Concepts(data), <<>>)

\* _fetch_products is called and sends its one GET (lines 69-74)
CcStart ==
    /\ cc.pc = "idle"
    /\ cc' = [cc EXCEPT !.pc = "request"]
    /\ UNCHANGED <<dsVars, luVars, csVars, gdVars, lc, pmVars, dcVars, apVars>>

\* the GET ends with r (lines 75-89): a 200 is parsed and returned; a
\* status of 400 or more is raised by raise_for_status and, like a timeout
\* and every other exception, answered with []
CcRespond(r) ==
    /\ cc.pc = "request"
    /\ cc' = [ cc EXCEPT
                 !.pc = "done",
                 !.requests = cc.requests + 1,
                 !.responses = Append(cc.responses, r),
                 !.products = IF r.kind = "status" /\ r.code = 200
                              THEN _parse_products(r.data) ELSE <<>> ]
    /\ UNCHANGED <<dsVars, luVars, csVars, gdVars, lc, pmVars, dcVars, apVars>>

DrugNames == { <<"T","y">>, <<" ">>, <<>> }

InitClients == DosageInit /\ LookupIdle /\ CacheIdle /\ FanIdle /\ RestIdle

NextClients ==
    \/ \E drug_name \in DrugNames : LcStart(drug_name)
    \/ \E r \in LabelResponses : LcRespond(r)
    \/ CcStart
    \/ \E r \in CatalogResponses : CcRespond(r)

SpecClients == InitClients /\ [][NextClients]_vars

\* every request of the label client ends: the httpx client is built with
\* timeout=self.timeout, and asyncio.sleep returns
SpecClientsLive ==
    SpecClients /\ WF_vars(\E r \in LabelResponses : LcRespond(r))

(***************************************************************************)
(* Claims on the remote clients                                            *)
(***************************************************************************)
LcDone == lc.pc = "done"
AllTransient(responses) ==
    \A i \in 1..Len(responses) : Transient(responses[i])
\* neither a success, nor a rate-limit status, nor a timeout
NonTransientFailure(r) == ~(r.kind = "status" /\ r.code = 200) /\ ~Transient(r)

\* C21: one get_drug_info call issues at most max_retries (3) requests
\* whatever the responses are, every call that entered the loop comes to its
\* end, and a call all of whose attempts met a rate-limit status or a timeout
\* ends with None.
C21_BoundedRetry ==
    /\ [](/\ lc.requests <= MAX_RETRIES
          /\ (LcDone /\ AllTransient(lc.responses)) => lc.result = None)
    /\ (lc.pc = "request" ~> LcDone)

\* a call that used all three attempts, on a mix of rate limits and timeouts
C21_Witness ==
    /\ LcDone
    /\ lc.requests = MAX_RETRIES
    /\ AllTransient(lc.responses)
    /\ \E i, j \in 1..Len(lc.responses) :
          lc.responses[i].kind = "timeout" /\ lc.responses[j].kind = "status"
    /\ lc.result = None

\* C22: in the label client and in the catalog client alike, a response
\* that is neither a success, a rate-limit status nor a timeout is the last
\* request of its call, which ends as "not found"; when it answers the first
\* request, the call made exactly one.
C22_NonTransientNotRetried ==
    /\ \A i \in 1..Len(lc.responses) :
          NonTransientFailure(lc.responses[i])
          => /\ i = Len(lc.responses)
             /\ lc.requests = i
             /\ LcDone
             /\ lc.result = None
    /\ \A i \in 1..Len(cc.responses) :
          NonTransientFailure(cc.responses[i])
          => /\ i = 1
             /\ cc.requests = 1
             /\ cc.pc = "done"
             /\ cc.products = <<>>

\* a 500 ended the label call and a 404 the catalog call, one request each
C22_Witness ==
    /\ LcDone /\ lc.requests = 1
    /\ lc.responses[1].kind = "status" /\ lc.responses[1].code = 500
    /\ cc.pc = "done" /\ cc.requests = 1
    /\ cc.responses[1].kind = "status" /\ cc.responses[1].code = 404

\* C30: within one label-client call each delay slept before a retry is
\* twice the delay slept before the retry preceding it, whether the retries
\* follow a rate-limit status or a timeout.
C30_BackoffDoubles ==
    \A k \in 1..(Len(lc.delays) - 1) : lc.delays[k + 1] = 2 * lc.delays[k]

\* term types of dispensable products
DispensableTty == {"SBD", "SCD", "BN"}

\* C29: the product list the catalog client returns holds only concepts of
\* groups whose term type is a dispensable product, and no two products of
\* the list have the same name.
C29_ParsedProducts ==
    (cc.pc = "done" /\ cc.responses[1].kind = "status" /\ cc.responses[1].code = 200)
    => LET cs == Concepts(cc.responses[1].data)
       IN  /\ \A i \in 1..Len(cc.products) :
                 \E k \in 1..Len(cs) :
                    /\ cs[k].tty \in DispensableTty
                    /\ NameOf(cs[k].concept) = cc.products[i].name
           /\ \A i, j \in 1..Len(cc.products) :
                 cc.products[i].name = cc.products[j].name => i = j

(***************************************************************************)
(* Product refinement and classification: DrugLookupService.refine_products *)
(* and evaluate_product_matches                                            *)
(* (backend/services/drug_lookup/drug_lookup_service.py), and              *)
(* ProductMatcher (backend/services/drug_lookup/product_matcher.py)        *)
(***************************************************************************)
\* products of the longest product list
MaxProducts == 6

\* a product as get_drug_details builds it; a product kept as a plain string
\* (legacy cache entry) is its name alone, which both functions read alike
Product(name, rxcui) == [name |-> name, rxcui |-> rxcui]

\* "<Brand> <N> <unit> Oral Tablet"
ProductName(brand, strength, unit) ==
    brand \o <<" ">> \o strength \o <<" ">> \o unit \o <<" ","O","r","a","l"," ","T","a","b","l","e","t">>
Tylenol == <<"T","y","l","e","n","o","l">>
Lipitor == <<"L","i","p","i","t","o","r">>
Synthroid == <<"S","y","n","t","h","r","o","i","d">>
MG == <<"M","G">>
MCG == <<"M","C","G">>

TylenolProducts ==
    << Product(ProductName(Tylenol, <<"3","2","5">>, MG), "209387"),
       Product(ProductName(Tylenol, <<"5","0","0">>, MG), "209459") >>
LipitorProducts ==
    << Product(ProductName(Lipitor, <<"1","0">>, MG), "617312"),
       Product(ProductName(Lipitor, <<"2","0">>, MG), "617310"),
       Product(ProductName(Lipitor, <<"4","0">>, MG), "617314") >>
\* Synthroid in the strengths on the market, the first MaxProducts of them
SynthroidStrengths ==
    << <<"2","5">>, <<"5","0">>, <<"7","5">>, <<"8","8">>, <<"1","0","0">>,
       <<"1","1","2">>, <<"1","2","5">>, <<"1","3","7">> >>
SynthroidProducts ==
    [ i \in 1..MaxProducts |->
        Product(ProductName(Synthroid, SynthroidStrengths[i], MCG),
                ToString(966220 + i)) ]

\* the two products of test_refine_products_by_route
InsulinProducts ==
    << Product(<<"I","n","s","u","l","i","n"," ","1","0"," ","U","N","I","T"," ",
                 "I","n","j","e","c","t","i","o","n">>, "311040"),
       Product(<<"I","n","s","u","l","i","n"," ","1","0"," ","U","N","I","T"," ",
                 "O","r","a","l"," ","T","a","b","l","e","t">>, "311041") >>

ProductLists ==
    {<<>>, TylenolProducts, LipitorProducts, SynthroidProducts, InsulinProducts}

\* the criteria the text processor may extract
Dosages ==
    { None,
      Some(<<"5","0","0","m","g">>), Some(<<"5","0","0"," ","m","g">>),
      Some(<<"2","0","m","g">>), Some(<<"3","2","5","m","g">>),
      Some(<<"4","0"," ","M","G">>), Some(<<" ","2","0"," ","M","g"," ">>),
      Some(<<>>) }
Routes == { None, Some(<<"o","r","a","l">>), Some(<<"T","o","p","i","c","a","l">>) }
Forms == { None, Some(<<"T","a","b","l","e","t">>) }

\* Python truthiness of an Optional[str]
TruthyStr(o) == ~IsNone(o) /\ Len(Val(o)) > 0

\* term in text
Contains(text, term) ==
    \E i \in 0..(Len(text) - Len(term)) :
        \A k \in 1..Len(term) : text[i + k] = term[k]

\* search_terms of refine_products (lines 79-85)
SearchTerms(dosage, route, form) ==
    (IF TruthyStr(dosage) THEN <<Strip(Lower(Val(dosage)))>> ELSE <<>>)
    \o (IF TruthyStr(route) THEN <<Strip(Lower(Val(route)))>> ELSE <<>>)
    \o (IF TruthyStr(form) THEN <<Strip(Lower(Val(form)))>> ELSE <<>>)

\* refine_products that keeps every product holding some term, without
\* trying the products that hold all of them first
refine_products_any(products, dosage, route, form) ==
    IF Len(products) = 0 \/ ~(TruthyStr(dosage) \/ TruthyStr(route) \/ TruthyStr(form))
    THEN products
    ELSE LET terms == SearchTerms(dosage, route, form)
             HasAny(p) == \E t \in 1..Len(terms) : Contains(Lower(p.name), terms[t])
         IN  SelectSeq(products, HasAny)

\* DrugLookupService.refine_products: the products whose lower-cased name
\* holds every term; failing any, those whose name holds some term
refine_products(products, dosage, route, form) ==
    IF Len(products) = 0 \/ ~(TruthyStr(dosage) \/ TruthyStr(route) \/ TruthyStr(form))
    THEN products
    ELSE LET terms == SearchTerms(dosage, route, form)
             HasAll(p) == \A t \in 1..Len(terms) : Contains(Lower(p.name), terms[t])
             HasAny(p) == \E t \in 1..Len(terms) : Contains(Lower(p.name), terms[t])
             exact_matches == SelectSeq(products, HasAll)
         IN  IF Len(exact_matches) > 0 THEN exact_matches
             ELSE SelectSeq(products, HasAny)

\* ---- ProductMatcher
\* FUZZY_THRESHOLD = 0.75, in hundredths
FUZZY_THRESHOLD == 75

\* ProductMatcher._build_search_query: " ".join(stripped parts).lower()
RECURSIVE JoinWith(_, _)
JoinWith(parts, sep) ==
    IF Len(parts) = 0 THEN <<>>
    ELSE IF Len(parts) = 1 THEN parts[1]
    ELSE parts[1] \o sep \o JoinWith(Tail(parts), sep)
_build_search_query(dosage, route, form) ==
    Lower(JoinWith(
        (IF TruthyStr(dosage) THEN <<Strip(Val(dosage))>> ELSE <<>>)
        \o (IF TruthyStr(route) THEN <<Strip(Val(route))>> ELSE <<>>)
        \o (IF TruthyStr(form) THEN <<Strip(Val(form))>> ELSE <<>>),
        <<" ">>))

\* difflib.SequenceMatcher (no junk; both strings are shorter than the 200
\* characters at which "popular" characters are dropped).
\* length of the common run of a from i and b from j, within a[..ahi], b[..bhi]
RECURSIVE RunLen(_, _, _, _, _, _)
RunLen(a, b, i, j, ahi, bhi) ==
    IF i > ahi \/ j > bhi \/ a[i] # b[j] THEN 0
    ELSE 1 + RunLen(a, b, i + 1, j + 1, ahi, bhi)

\* find_longest_match: the longest block a[i..i+k-1] = b[j..j+k-1] within
\* a[alo..ahi] and b[blo..bhi]; of the longest the one earliest in a, and of
\* those the one earliest in b
find_longest_match(a, b, alo, ahi, blo, bhi) ==
    LET blocks == { [i |-> i, j |-> j, k |-> RunLen(a, b, i, j, ahi, bhi)] :
                    i \in alo..ahi, j \in blo..bhi }
        best == CHOOSE m \in blocks :
                  \A n \in blocks :
                     \/ m.k > n.k
                     \/ m.k = n.k /\ m.i < n.i
                     \/ m.k = n.k /\ m.i = n.i /\ m.j <= n.j
    IN  IF alo > ahi \/ blo > bhi THEN [i |-> alo, j |-> blo, k |-> 0] ELSE best

\* total size of get_matching_blocks: the longest match, then the same to
\* its left and to its right
RECURSIVE Matches(_, _, _, _, _, _)
Matches(a, b, alo, ahi, blo, bhi) ==
    LET m == find_longest_match(a, b, alo, ahi, blo, bhi)
    IN  IF m.k = 0 THEN 0
        ELSE m.k + Matches(a, b, alo, m.i - 1, blo, m.j - 1)
                 + Matches(a, b, m.i + m.k, ahi, m.j + m.k, bhi)

\* ProductMatcher._fuzzy_score: SequenceMatcher.ratio() = 2.0 * M / T, kept
\* as the fraction [num, den] (1.0 when both strings are empty)
_fuzzy_score(search_text, product_name) ==
    LET a == Lower(search_text)
        b == Lower(product_name)
    IN  IF Len(a) + Len(b) = 0 THEN [num |-> 1, den |-> 1]
        ELSE [num |-> 2 * Matches(a, b, 1, Len(a), 1, Len(b)), den |-> Len(a) + Len(b)]

\* scored_products.sort(reverse=True, key=score): by descending score, equal
\* scores staying in list order
RECURSIVE InsertByScore(_, _)
InsertByScore(sorted, x) ==
    IF Len(sorted) = 0 THEN <<x>>
    ELSE IF sorted[1].score.num * x.score.den >= x.score.num * sorted[1].score.den
         THEN <<sorted[1]>> \o InsertByScore(Tail(sorted), x)
         ELSE <<x>> \o sorted
RECURSIVE SortByScore(_)
SortByScore(scored) ==
    IF Len(scored) = 0 THEN <<>>
    ELSE InsertByScore(SortByScore(SubSeq(scored, 1, Len(scored) - 1)),
                       scored[Len(scored)])

\* ProductMatcher.refine_products: the products scoring at least the
\* threshold against the search query, best first
fuzzy_refine_products(products, dosage, route, form) ==
    IF Len(products) = 0 \/ ~(TruthyStr(dosage) \/ TruthyStr(route) \/ TruthyStr(form))
    THEN products
    ELSE LET search_query == _build_search_query(dosage, route, form)
             scored == [i \in 1..Len(products) |->
                          [score |-> _fuzzy_score(search_query, products[i].name),
                           product |-> products[i]]]
             Passes(x) == 100 * x.score.num >= FUZZY_THRESHOLD * x.score.den
             kept == SortByScore(SelectSeq(scored, Passes))
         IN  [i \in 1..Len(kept) |-> kept[i].product]

\* products[:n]
Take(items, n) == SubSeq(items, 1, IF Len(items) < n THEN Len(items) ELSE n)

\* evaluate_product_matches that shows every refined product on "multiple"
evaluate_product_matches_unsliced(products, refined, user_was_specific) ==
    IF user_was_specific /\ Len(refined) = 1
    THEN [match_type |-> "exact", best_match |-> Some(refined[1]),
          sample_products |-> refined, match_count |-> 1]
    ELSE IF user_was_specific /\ Len(refined) > 1
    THEN [match_type |-> "multiple", best_match |-> None,
          sample_products |-> refined, match_count |-> Len(refined)]
    ELSE IF user_was_specific
    THEN [match_type |-> "none", best_match |-> None,
          sample_products |-> Take(products, 3), match_count |-> 0]
    ELSE [match_type |-> "vague", best_match |-> None,
          sample_products |-> Take(products, 3), match_count |-> Len(products)]

\* DrugLookupService.evaluate_product_matches
evaluate_product_matches(products, refined, user_was_specific) ==
    IF user_was_specific /\ Len(refined) > 0
    THEN IF Len(refined) = 1
         THEN [match_type |-> "exact", best_match |-> Some(refined[1]),
               sample_products |-> refined, match_count |-> 1]
         ELSE [match_type |-> "multiple", best_match |-> None,
               sample_products |-> Take(refined, 5), match_count |-> Len(refined)]
    ELSE IF user_was_specific /\ Len(refined) = 0
    THEN [match_type |-> "none", best_match |-> None,
          sample_products |-> Take(products, 3), match_count |-> 0]
    ELSE [match_type |-> "vague", best_match |-> None,
          sample_products |-> Take(products, 3), match_count |-> Len(products)]

\* ProductMatcher.evaluate_matches
evaluate_matches(products, refined, user_was_specific) ==
    IF user_was_specific /\ Len(refined) > 0
    THEN IF Len(refined) = 1
         THEN [match_type |-> "exact", best_match |-> Some(refined[1]),
               sample_products |-> refined, match_count |-> 1]
         ELSE [match_type |-> "multiple", best_match |-> None,
               sample_products |-> Take(refined, 3), match_count |-> Len(refined)]
    ELSE IF user_was_specific /\ Len(refined) = 0
    THEN [match_type |-> "none", best_match |-> None,
          sample_products |-> Take(products, 3), match_count |-> 0]
    ELSE [match_type |-> "vague", best_match |-> None,
          sample_products |-> Take(products, 3), match_count |-> Len(products)]

\* the lists "refined" may be: any stretch of a product list
Stretches(items) ==
    {<<>>} \cup {SubSeq(items, i, j) : i \in 1..Len(items), j \in 1..Len(items)}
RefinedLists == UNION {Stretches(items) : items \in ProductLists}

\* refine_products is called, on the service and on the matcher; neither
\* keeps state between calls, so a run follows one call
PmRefine(products, dosage, route, form) ==
    /\ pm.op = "none"
    /\ pm' = [ op |-> "refine", products |-> products, dosage |-> dosage,
               route |-> route, form |-> form, user_was_specific |-> FALSE,
               refined |-> refine_products(products, dosage, route, form),
               fuzzy |-> fuzzy_refine_products(products, dosage, route, form),
               result |-> None, matcher |-> None ]
    /\ UNCHANGED <<dsVars, luVars, csVars, gdVars, clVars, dcVars, apVars>>

\* evaluate_product_matches is called, and evaluate_matches on the matcher
PmEvaluate(products, refined, user_was_specific) ==
    /\ pm.op = "none"
    /\ pm' = [ op |-> "evaluate", products |-> products, dosage |-> None,
               route |-> None, form |-> None,
               user_was_specific |-> user_was_specific,
               refined |-> refined, fuzzy |-> <<>>,
               result |-> Some(evaluate_product_matches(products, refined,
                                                        user_was_specific)),
               matcher |-> Some(evaluate_matches(products, refined,
                                                 user_was_specific)) ]
    /\ UNCHANGED <<dsVars, luVars, csVars, gdVars, clVars, dcVars, apVars>>

InitMatcher == DosageInit /\ LookupIdle /\ CacheIdle /\ FanIdle /\ RestIdle

NextMatcher ==
    \/ \E products \in ProductLists, dosage \in Dosages, route \in Routes,
          form \in Forms : PmRefine(products, dosage, route, form)
    \/ \E products \in ProductLists, refined \in RefinedLists,
          user_was_specific \in BOOLEAN :
           PmEvaluate(products, refined, user_was_specific)

SpecMatcher == InitMatcher /\ [][NextMatcher]_vars

(***************************************************************************)
(* Claims on refinement and classification                                 *)
(***************************************************************************)
PmEvaluated == pm.op = "evaluate"
PmRefined == pm.op = "refine"

\* the row of the classification table that applies to the call of pm
TableRow(r) ==
    IF pm.user_was_specific /\ Len(pm.refined) = 1
    THEN /\ r.match_type = "exact"
         /\ r.best_match = Some(pm.refined[1])
         /\ r.sample_products = <<pm.refined[1]>>
    ELSE IF pm.user_was_specific /\ Len(pm.refined) > 1
    THEN /\ r.match_type = "multiple"
         /\ r.best_match = None
         /\ r.sample_products = Take(pm.refined, 5)
    ELSE IF pm.user_was_specific
    THEN /\ r.match_type = "none"
         /\ r.best_match = None
         /\ r.sample_products = Take(pm.products, 3)
    ELSE /\ r.match_type = "vague"
         /\ r.best_match = None
         /\ r.sample_products = Take(pm.products, 3)

\* C23: evaluate_product_matches and evaluate_matches classify by the table:
\* specific with one refined product is exact with that product as best
\* match and sample; specific with several is multiple with the first 5 of
\* refined; specific with none is none with the first 3 of the full list;
\* not specific is vague with the first 3 of the full list.
C23_Classification ==
    PmEvaluated => TableRow(Val(pm.result)) /\ TableRow(Val(pm.matcher))

\* the invariant of a match result r
MatchResultOk(r) ==
    /\ r.match_type = "exact" <=> (r.match_count = 1 /\ ~IsNone(r.best_match))
    /\ r.match_type = "vague" => ~pm.user_was_specific
    /\ r.match_count >= 0
    /\ Len(r.sample_products) <= 5

\* C24: every result of evaluate, for all product lists and both values of
\* user_was_specific, is exact iff match_count = 1 and best_match is set, is
\* vague only if the user was not specific, has match_count >= 0 and a
\* sample of at most 5 products.
C24_MatchResultInvariant ==
    PmEvaluated => MatchResultOk(Val(pm.result)) /\ MatchResultOk(Val(pm.matcher))

\* a specific request that more than 5 products match: the sample is cut
C24_Witness ==
    /\ PmEvaluated
    /\ pm.user_was_specific
    /\ Len(pm.refined) > 5
    /\ Val(pm.result).match_type = "multiple"
    /\ Val(pm.result).match_count = Len(pm.refined)
    /\ Len(Val(pm.result).sample_products) = 5

\* the strengths of the MG products of the product lists
MgStrengths == { <<"3","2","5">>, <<"5","0","0">>, <<"1","0">>, <<"2","0">>, <<"4","0">> }

\* C25: for products named "<Brand> <N> MG Oral Tablet" with distinct
\* strengths, refine_products with the dosage "<N>mg" and no other criterion
\* returns exactly the product of strength N, which evaluate with
\* user_was_specific = true classifies as exact.
C25_RefineByDosage ==
    \A n \in MgStrengths, brand \in {Tylenol, Lipitor} :
        \A i \in 1..Len(pm.products) :
            ( /\ PmRefined
              /\ pm.dosage = Some(n \o <<"m","g">>)
              /\ IsNone(pm.route) /\ IsNone(pm.form)
              /\ pm.products[i].name = ProductName(brand, n, MG) )
            => /\ pm.refined = <<pm.products[i]>>
               /\ pm.fuzzy = <<pm.products[i]>>
               /\ evaluate_product_matches(pm.products, pm.refined, TRUE).match_type
                    = "exact"

(***************************************************************************)
(* DosageCalculator.calculate_pediatric_dosage called directly             *)
(* (backend/utilities/dosage_calculator.py; the method of                  *)
(* backend/services/dosage_calculator.py validates and computes alike)     *)
(***************************************************************************)
\* adult doses in thousandths of mg: negative, zero, 0.088 mg, 1 mg, 325 mg,
\* 500 mg
CalcDoses == {-100000, 0, 88, 1000, 325000, 500000}
\* weights in tenths of kg: 1.0, 2.4, 2.5, 9.9, 10, 69.9, 70, 200, 200.1, 250
CalcWeights == {10, 24, 25, 99, 100, 699, 700, 2000, 2001, 2500}
CalcAges == {None, Some(-1), Some(0), Some(1), Some(2), Some(11), Some(12),
             Some(18), Some(19), Some(120), Some(121)}

\* one call with the same arguments to the calculator of backend/utilities
\* (value) and to the one of backend/services (older); neither keeps state
\* between calls
DcCall(adult_dose_mg, patient_weight_kg, patient_age) ==
    /\ dc.kind = "none"
    /\ LET r == calculate_pediatric_dosage(adult_dose_mg, Some(patient_weight_kg),
                                           patient_age)
           o == services_calculate_pediatric_dosage(adult_dose_mg,
                                                    Some(patient_weight_kg),
                                                    patient_age)
       IN  dc' = [ kind |-> "done", adult_dose_mg |-> adult_dose_mg,
                   patient_weight_kg |-> patient_weight_kg,
                   patient_age |-> patient_age, exc |-> r.exc, value |-> r.value,
                   older |-> o.value ]
    /\ UNCHANGED <<dsVars, luVars, csVars, gdVars, clVars, pmVars, apVars>>

InitCalculator == DosageInit /\ LookupIdle /\ CacheIdle /\ FanIdle /\ RestIdle

NextCalculator ==
    \E adult_dose_mg \in CalcDoses, patient_weight_kg \in CalcWeights,
       patient_age \in CalcAges :
        DcCall(adult_dose_mg, patient_weight_kg, patient_age)

SpecCalculator == InitCalculator /\ [][NextCalculator]_vars

(***************************************************************************)
(* Claims on the calculator                                                *)
(***************************************************************************)
DcDone == dc.kind = "done"
DcOk == DcDone /\ dc.exc = ""
AgeGiven == ~IsNone(dc.patient_age)

\* C26: calculate_pediatric_dosage raises a validation error iff the adult
\* dose is <= 0, or the weight is < 2.5 or > 200, or an age is supplied that
\* is < 0 or > 120, and raises nothing else; weight 2.5, weight 200, age 0
\* and age 120 are accepted, weight 1.0 and weight 250 are rejected.
C26_ValidationError ==
    DcDone =>
        /\ dc.exc \in {"", "ValueError"}
        /\ dc.exc = "ValueError"
             <=> \/ dc.adult_dose_mg <= 0
                 \/ dc.patient_weight_kg < 25
                 \/ dc.patient_weight_kg > 2000
                 \/ AgeGiven /\ (Val(dc.patient_age) < 0 \/ Val(dc.patient_age) > 120)
        /\ ( /\ dc.adult_dose_mg > 0
             /\ dc.patient_weight_kg \in {25, 2000}
             /\ dc.patient_age \in {None, Some(0), Some(120)} ) => dc.exc = ""
        /\ dc.patient_weight_kg \in {10, 2500} => dc.exc = "ValueError"

\* the lowest weight and the highest age are accepted together
C26_Witness ==
    /\ DcOk
    /\ dc.patient_weight_kg = 25
    /\ dc.patient_age = Some(120)
    /\ ~IsNone(dc.value)

\* C27 as stated: the doses are the values of the formulas themselves:
\* Clark's = weight/70 x adult dose, equal to the adult dose at weight 70,
\* Young's = age/(age+12) x adult dose, Fried's = (12 x age)/150 x adult dose.
C27_Original ==
    DcOk =>
        LET m == Val(dc.value).methods
            d == dc.adult_dose_mg
            w == dc.patient_weight_kg
        IN  /\ ~IsNone(m.clarks_rule)
            /\ Val(m.clarks_rule) * 7000 = w * d
            /\ w = 700 => Val(dc.value).recommended_dose_mg * 10 = d
            /\ ~IsNone(m.youngs_rule)
                 => Val(m.youngs_rule) * (Val(dc.patient_age) + 12) * 10
                      = Val(dc.patient_age) * d
            /\ ~IsNone(m.frieds_rule)
                 => Val(m.frieds_rule) * 1500 = 12 * Val(dc.patient_age) * d

\* C27: for valid inputs the result holds Clark's dose = weight/70 x adult
\* dose rounded to two decimals, always present and the recommended dose
\* (equal to the adult dose at weight 70 when the adult dose has at most two
\* decimals); Young's dose = age/(age+12) x adult dose rounded likewise,
\* present iff an age is supplied and age <= 18; Fried's dose =
\* (12 x age)/150 x adult dose rounded likewise, present iff an age is
\* supplied and age < 2.
C27_RuleDoses ==
    DcOk =>
        LET m == Val(dc.value).methods
            d == dc.adult_dose_mg
            w == dc.patient_weight_kg
        IN  /\ m.clarks_rule = Some(RoundDiv(w * d, 7000))
            /\ Val(dc.value).recommended_dose_mg = Val(m.clarks_rule)
            /\ (w = 700 /\ d % 10 = 0) => Val(dc.value).recommended_dose_mg * 10 = d
            /\ ~IsNone(m.youngs_rule) <=> (AgeGiven /\ Val(dc.patient_age) <= 18)
            /\ ~IsNone(m.youngs_rule)
                 => Val(m.youngs_rule)
                      = RoundDiv(Val(dc.patient_age) * d, (Val(dc.patient_age) + 12) * 10)
            /\ ~IsNone(m.frieds_rule) <=> (AgeGiven /\ Val(dc.patient_age) < 2)
            /\ ~IsNone(m.frieds_rule)
                 => Val(m.frieds_rule) = RoundDiv(12 * Val(dc.patient_age) * d, 1500)

\* a one-year-old of 70 kg: the three rules apply and the recommended dose is
\* the adult dose
C27_Witness ==
    /\ DcOk
    /\ dc.patient_weight_kg = 700
    /\ dc.patient_age = Some(1)
    /\ dc.adult_dose_mg = 500000
    /\ Val(dc.value).recommended_dose_mg = 50000
    /\ ~IsNone(Val(dc.value).methods.youngs_rule)
    /\ ~IsNone(Val(dc.value).methods.frieds_rule)

\* C28: every entry a writer puts into the cache (lookup_drug after a
\* catalog fetch, seed_common_drugs) has the object shape {generic_name,
\* products}, never the flat list of product names: an entry that an
\* operation adds or replaces is a dict.
C28_WritersEmitDict ==
    [][ \A i \in 1..Len(_load_cache(mem', disk')) :
           LET e == _load_cache(mem', disk')[i]
           IN  (\A j \in 1..Len(CacheContent) : CacheContent[j] # e)
               => e.value.shape = "dict" ]_vars

(***************************************************************************)
(* Claims on the calculator's warnings                                     *)
(***************************************************************************)
HasWarning(warnings, text) == \E i \in 1..Len(warnings) : warnings[i].text = text

\* the warning list `warnings` is the one the table of conditions gives for
\* the call held in dc and the recommended dose `recommended`
WarningsAsStated(warnings, recommended) ==
    /\ Len(warnings) >= 1 /\ warnings[1].text = "estimates only"
    /\ HasWarning(warnings, "very low weight") <=> dc.patient_weight_kg < 100
    /\ HasWarning(warnings, "infant") <=> (AgeGiven /\ Val(dc.patient_age) < 2)
    /\ HasWarning(warnings, "approaching adult age")
         <=> (AgeGiven /\ Val(dc.patient_age) >= 12)
    /\ ~(HasWarning(warnings, "infant") /\ HasWarning(warnings, "approaching adult age"))
    /\ HasWarning(warnings, "very small dose") <=> recommended < 100

\* C31: for all valid inputs the calculator's warning list starts with the
\* generic "estimates only" warning, holds the low-weight warning iff
\* weight < 10, the infant warning iff an age is supplied and age < 2, the
\* near-adult warning iff an age is supplied and age >= 12 (never with the
\* infant warning), and the tiny-dose warning iff the recommended dose, as
\* rounded to two decimals, is below 1 mg; in the calculator of
\* backend/utilities and in the one of backend/services.
C31_Warnings ==
    DcOk =>
        /\ WarningsAsStated(Val(dc.value).warnings, Val(dc.value).recommended_dose_mg)
        /\ WarningsAsStated(Val(dc.older).warnings, Val(dc.older).recommended_dose_mg)

\* the same for the calculator of backend/utilities alone
UtilitiesWarningsAsStated ==
    DcOk => WarningsAsStated(Val(dc.value).warnings, Val(dc.value).recommended_dose_mg)

(***************************************************************************)
(* Claims on DrugLookupService.refine_products                             *)
(***************************************************************************)
\* the criteria supplied to the call held in pm, lower-cased and trimmed
SuppliedTerms ==
    { Strip(Lower(Val(c))) : c \in { x \in {pm.dosage, pm.route, pm.form} : TruthyStr(x) } }

NameHas(p, term) == ContainsPhrase(p.name, term)
NameHasAll(p) == \A term \in SuppliedTerms : NameHas(p, term)
NameHasSome(p) == \E term \in SuppliedTerms : NameHas(p, term)

\* r is s with some of its elements left out
RECURSIVE IsSubSequence(_, _)
IsSubSequence(r, s) ==
    IF Len(r) = 0 THEN TRUE
    ELSE IF Len(s) = 0 THEN FALSE
    ELSE IF Head(r) = Head(s) THEN IsSubSequence(Tail(r), Tail(s))
    ELSE IsSubSequence(r, Tail(s))

CalculatorOutput ==
    Val(calculate_pediatric_dosage(Val(dsArgs.adult_dose_mg), dsArgs.patient_weight_kg,
                                   dsArgs.patient_age).value)
NotOfficialGuidance(w) == DOMAIN w = {"level", "category", "message"}
                          /\ w.level = "critical" /\ w.category = "calculation_warning"

\* C33: in a calculated-estimate result the top-level warnings are the
\* critical "not official guidance" warning followed by the calculator's
\* warnings in their order, and the dosing details are the calculator's
\* output unmodified: their warnings list is the list the calculator
\* produced and holds no critical warning of the arbiter.
C33_CalculatedResponse ==
    (DsReturned /\ DsResult.source = "calculated_estimate") =>
        /\ Len(DsResult.warnings) = Len(CalculatorOutput.warnings) + 1
        /\ NotOfficialGuidance(DsResult.warnings[1])
        /\ Tail(DsResult.warnings) = CalculatorOutput.warnings
        /\ Val(DsResult.dosing_info) = CalculatorOutput
        /\ Val(DsResult.dosing_info).warnings = CalculatorOutput.warnings
        /\ \A i \in 1..Len(Val(DsResult.dosing_info).warnings) :
               ~NotOfficialGuidance(Val(DsResult.dosing_info).warnings[i])

\* the part of C33 on the top-level warnings alone
TopLevelWarningsAsStated ==
    (DsReturned /\ DsResult.source = "calculated_estimate") =>
        /\ Len(DsResult.warnings) = Len(CalculatorOutput.warnings) + 1
        /\ NotOfficialGuidance(DsResult.warnings[1])
        /\ Tail(DsResult.warnings) = CalculatorOutput.warnings

\* a per-kilogram unit, read off a text directly: mg/kg, ml/kg, mcg/kg, or
\* "per" and "kg" with nothing but blanks between them, in any letter case
HasPerKilogramUnit(text) ==
    \/ ContainsPhrase(text, <<"m","g","/","k","g">>)
    \/ ContainsPhrase(text, <<"m","l","/","k","g">>)
    \/ ContainsPhrase(text, <<"m","c","g","/","k","g">>)
    \/ \E i \in 1..Len(text), j \in 1..Len(text) :
          /\ i + 3 <= j /\ j + 1 <= Len(text)
          /\ SubSeq(Lower(text), i, i + 2) = <<"p","e","r">>
          /\ \A k \in (i + 3)..(j - 1) : IsSpace(text[k])
          /\ SubSeq(Lower(text), j, j + 1) = <<"k","g">>

SourceInfo(w) == w.level = "info" /\ w.category = "source_info"

\* the result is the official-label response with the one informational
\* warning and the weight-based flag of the dosing text
OfficialLabelUnrestricted ==
    /\ DsReturned
    /\ DsResult.source = "fda_official"
    /\ DsResult.confidence = "high"
    /\ Len(DsResult.warnings) = 1
    /\ SourceInfo(DsResult.warnings[1])
    /\ Val(DsResult.dosing_info).weight_based = HasPerKilogramUnit(LabelDosingText)

\* C34 as stated: with non-empty dosing instructions and no restriction
\* marker in the dosing text nor in the pediatric-use text, the result is an
\* official-label result with exactly one informational source warning and
\* weightBased true iff the dosing text holds a per-kilogram unit.
C34_Original ==
    ( /\ DsFinished /\ LabelHasDosing
      /\ ~HasRestrictionMarker(LabelDosingText)
      /\ ~HasRestrictionMarker(LabelPediatricText) )
    => OfficialLabelUnrestricted

\* C34: with non-empty dosing instructions and no restriction marker in the
\* dosing text followed by a blank and the pediatric-use text, the result is
\* an official-label result whose warnings are exactly one informational
\* source warning (no critical warning) and whose weightBased flag is true iff
\* the dosing text holds a per-kilogram unit (mg/kg, ml/kg, mcg/kg, per kg).
C34_OfficialLabelUnrestricted ==
    (DsFinished /\ LabelHasDosing /\ ~HasRestrictionMarker(LabelFullText))
    => OfficialLabelUnrestricted

\* dosing instructions "10 ML PER KG" with a marker-free pediatric-use text
\* that holds no unit: flagged weight-based, one informational warning
C34_Witness ==
    /\ DsReturned /\ LabelHasDosing
    /\ LabelDosingText = <<"1","0"," ","M","L"," ","P","E","R"," ","K","G">>
    /\ LabelPediatricText = <<"r","e","c","o","m","m","e","n","d","e","d">>
    /\ Len(DsResult.warnings) = 1 /\ SourceInfo(DsResult.warnings[1])
    /\ Val(DsResult.dosing_info).weight_based = TRUE

\* dosing instructions "Do NOT" and pediatric-use text "recommended": no
\* marker in either, one across the two
C34_MarkerAcrossFields ==
    /\ DsReturned /\ LabelHasDosing
    /\ ~HasRestrictionMarker(LabelDosingText)
    /\ ~HasRestrictionMarker(LabelPediatricText)
    /\ \E i \in 1..Len(DsResult.warnings) : CriticalRestriction(DsResult.warnings[i])

(***************************************************************************)
(* Claims on the label client's waiting                                    *)
(***************************************************************************)
\* C39: the label client never waits after its last attempt: once the
\* max_retries-th request of a call has failed, with a rate-limit status or
\* with a timeout, no delay follows it: every delay of the call lies between
\* two requests.
C39_NoWaitAfterLastAttempt ==
    (lc.requests = MAX_RETRIES /\ Transient(lc.responses[MAX_RETRIES]))
    => /\ LcDone
       /\ IsNone(lc.result)
       /\ Len(lc.delays) <= MAX_RETRIES - 1

\* the timeout half of C39: a timeout on the last attempt is followed by no
\* delay
NoWaitAfterLastTimeout ==
    (lc.requests = MAX_RETRIES /\ lc.responses[MAX_RETRIES].kind = "timeout")
    => Len(lc.delays) <= MAX_RETRIES - 1

(***************************************************************************)
(* Claims on a save whose write fails                                      *)
(***************************************************************************)
\* C37: when save returns failure because the file could not be written, the
\* mapping in memory is as before the call, so that a following get of the
\* name does not return the entry that was not stored; that is, after every
\* save, seeding or clear that returned, the mapping in memory equals the
\* content of the file.
C37_MemoryEqualsStore ==
    (csLast.ret.op \in {"save", "seed", "clear"} /\ ~csLast.ret.raised)
    => CacheContent = disk

\* the same after the operations whose write went through
MemoryEqualsStoreAfterSuccess ==
    ( /\ csLast.ret.op \in {"save", "clear"}
      /\ ~csLast.ret.raised /\ csLast.ret.success )
    => CacheContent = disk

(***************************************************************************)
(* The cache as backend/api/routes.py wires it: get_drug_lookup_service    *)
(* builds DrugLookupService(), whose __init__ makes a CacheService of its  *)
(* own (drug_lookup_service.py line 23), and get_cache_service builds      *)
(* another CacheService for /cache/seed, /cache/clear and /health. Each    *)
(* keeps its own self._cache; both read and rewrite data/cached_labels.json *)
(* (writes succeed here; failing writes are the subject of SpecCache).     *)
(***************************************************************************)
\* requests made in one run
MaxRequests == 4

\* the brand names looked up: Ty is also a name of common_drugs, Li is not
WiringNames == { <<"T","y">>, <<"L","i">> }

Keys(d) == { d[i].key : i \in 1..Len(d) }
\* the keys a handle holds in memory, none before it has loaded the file
HeldKeys(cache) == IF IsNone(cache) THEN {} ELSE Keys(Val(cache))

\* a finished operation
WrDone(op, name, source) == Some([op |-> op, name |-> name, source |-> source])

\* lookup_drug up to its first await (lines 33-54), on the CacheService of
\* DrugLookupService: a hit returns with the "cache:" tag
WrLookupStart(brand_name) ==
    /\ wr.steps < MaxRequests
    /\ IsNone(wr.fetching)
    /\ LET cache == _load_cache(wr.lookup, wr.file)
           cached == CacheGet(cache, brand_name)
       IN  wr' = IF Truthy(cached)
                 THEN [ wr EXCEPT !.lookup = Some(cache),
                                  !.steps = wr.steps + 1,
                                  !.last = WrDone("lookup", brand_name, "cache") ]
                 ELSE [ wr EXCEPT !.lookup = Some(cache),
                                  !.steps = wr.steps + 1,
                                  !.fetching = Some(brand_name) ]
    /\ UNCHANGED <<dsVars, luVars, csVars, gdVars, clVars, pmVars, dcVars, pl>>

\* get_drug_details has answered (lines 56-66): products are saved through
\* the same CacheService, which rewrites the file from its own dict
WrLookupFinish(o) ==
    /\ ~IsNone(wr.fetching)
    /\ LET name == Val(wr.fetching)
           result == get_drug_details(name, o)
       IN  IF ~IsNone(result) /\ Len(Val(result).products) > 0
           THEN LET s == CacheSave(_load_cache(wr.lookup, wr.file), wr.file, name,
                                   Val(result), "ok")
                IN  wr' = [ wr EXCEPT !.lookup = Some(s.cache),
                                      !.file = s.file,
                                      !.fetching = None,
                                      !.saved = wr.saved \cup {name},
                                      !.cleared = wr.cleared \ {name},
                                      !.last = WrDone("lookup", name, "api") ]
           ELSE wr' = [ wr EXCEPT !.fetching = None,
                                  !.last = WrDone("lookup", name, "not_found") ]
    /\ UNCHANGED <<dsVars, luVars, csVars, gdVars, clVars, pmVars, dcVars, pl>>

\* POST /cache/clear: clear() on the CacheService of get_cache_service
\* (routes.py lines 326-332); the names cached till then count as cleared
WrClear ==
    /\ wr.steps < MaxRequests
    /\ LET c == CacheClear(_load_cache(wr.admin, wr.file), wr.file, "ok")
       IN  wr' = [ wr EXCEPT !.admin = Some(c.cache),
                             !.file = c.file,
                             !.steps = wr.steps + 1,
                             !.saved = {},
                             !.cleared = wr.cleared \cup Keys(wr.file)
                                           \cup HeldKeys(wr.lookup)
                                           \cup HeldKeys(wr.admin),
                             !.last = WrDone("clear", <<>>, "") ]
    /\ UNCHANGED <<dsVars, luVars, csVars, gdVars, clVars, pmVars, dcVars, pl>>

\* POST /cache/seed: seed_common_drugs() on the CacheService of
\* get_cache_service (routes.py lines 318-324), which loads and fills its
\* own dict and rewrites the file from it; a name it fetched is fetched again
WrSeed(status) ==
    /\ wr.steps < MaxRequests
    /\ LET before == _load_cache(wr.admin, wr.file)
           cache == SeedLoop(before, 1, status)
       IN  wr' = [ wr EXCEPT !.admin = Some(cache),
                             !.file = save_cached_labels(cache, wr.file, "ok").file,
                             !.steps = wr.steps + 1,
                             !.cleared = wr.cleared \ (Keys(cache) \ Keys(before)),
                             !.last = WrDone("seed", <<>>, "") ]
    /\ UNCHANGED <<dsVars, luVars, csVars, gdVars, clVars, pmVars, dcVars, pl>>

\* how get_drug_details answers a lookup of the wiring: fully, or not at all
WiringAnswers ==
    { AllAnswered,
      [products |-> "error", generic |-> "ok", ndc |-> "ok", again |-> "ok"] }

InitWiring == DosageInit /\ LookupIdle /\ CacheIdle /\ FanIdle /\ RestIdle

NextWiring ==
    \/ \E brand_name \in WiringNames : WrLookupStart(brand_name)
    \/ \E o \in WiringAnswers : WrLookupFinish(o)
    \/ WrClear
    \/ \E status \in SeedAnswers : WrSeed(status)

SpecWiring == InitWiring /\ [][NextWiring]_vars

(***************************************************************************)
(* Claims on the cache across the two handles                              *)
(***************************************************************************)
\* C35: in the wiring of routes.py, once /cache/clear has completed, a
\* lookup_drug of a brand name that was cached before the clear is a cache
\* miss (it returns no "cache:" tagged result from data of before the
\* clear), and no later save re-creates in the file an entry that was
\* cleared and not fetched again.
C35_ClearThroughApplication ==
    /\ ( /\ ~IsNone(wr.last)
         /\ Val(wr.last).op = "lookup"
         /\ Val(wr.last).source = "cache" )
       => Val(wr.last).name \notin wr.cleared
    /\ \A name \in wr.cleared : ~DictHas(wr.file, name)

\* C36: once a save(b, e) of lookup_drug has returned success, the file
\* keeps an entry for b until a clear is executed, whatever lookup_drug
\* saves and /cache/seed runs follow on the two CacheService instances of
\* routes.py.
C36_DurableAcrossHandles ==
    \A b \in wr.saved : DictHas(wr.file, b)

(***************************************************************************)
(* _process_drug_lookup (backend/api/routes.py lines 64-148): one request, *)
(* from the processed text to the response, with its two awaits            *)
(***************************************************************************)
\* what the text processor hands over
Processed(brand_name, dosage, route, form, dosage_numeric, weight_kg) ==
    [ brand_name |-> brand_name, dosage |-> dosage, route |-> route, form |-> form,
      dosage_numeric |-> dosage_numeric, weight_kg |-> weight_kg ]

PipelineBrands == { None, Some(<<>>), Some(Tylenol), Some(Lipitor) }
PipelineDoses == { None, Some(100000) }
PipelineWeights == { None, Some(350) }

\* what lookup_drug may return for a brand: no products, or its products
LookupResults(brand_name) ==
    {<<>>} \cup (IF brand_name = Tylenol THEN {TylenolProducts}
                 ELSE IF brand_name = Lipitor THEN {LipitorProducts}
                 ELSE {})

\* what the label client may answer: nothing, or a label with or without
\* dosing instructions
PipelineLabels ==
    { a \in LabelAnswers :
        IsNone(a) \/ ( /\ IsNone(Val(a).pediatric_use)
                       /\ IsNone(Val(a).warnings)
                       /\ IsNone(Val(a).contraindications) ) }

\* the test of line 130 passing whenever some product matched
CallsArbiterOnAnyMatch(match_result) == match_result.match_count > 0

\* line 130: the arbiter is asked for an exact match only
CallsArbiter(match_result) == match_result.match_type = "exact"

\* MessageGenerator.clean_dosage_info of a returned dict
clean_dosage_info(dosage_info) ==
    Some([ source |-> dosage_info.source, confidence |-> dosage_info.confidence,
           note |-> dosage_info.note ])

\* the response dicts: the early ones carry no dosage_info key
PlFailure(error) ==
    Some([kind |-> "return", success |-> FALSE, error |-> error, dosage_info |-> None])
PlSuccess(dosage_info) ==
    Some([kind |-> "return", success |-> TRUE, error |-> "", dosage_info |-> dosage_info])

\* lines 76-95: without a brand name the request ends; else lookup_drug is
\* awaited
PlStart(processed) ==
    /\ pl.pc = "idle"
    /\ pl' = IF ~TruthyStr(processed.brand_name)
             THEN [ pl EXCEPT !.pc = "done", !.processed = Some(processed),
                              !.out = PlFailure("No drug name detected") ]
             ELSE [ pl EXCEPT !.pc = "lookup", !.processed = Some(processed),
                              !.lookups = 1 ]
    /\ UNCHANGED <<dsVars, luVars, csVars, gdVars, clVars, pmVars, dcVars, wr>>

\* lines 97-137: lookup_drug has returned; without products the request
\* ends; else the products are refined and classified, and for the match
\* the test of line 130 lets through get_dosage_info is awaited, which sends
\* its label query first (dosage_service.py line 141)
PlLookupDone(products) ==
    /\ pl.pc = "lookup"
    /\ LET processed == Val(pl.processed)
           user_was_specific ==
               TruthyStr(processed.dosage) \/ TruthyStr(processed.route)
                 \/ TruthyStr(processed.form)
           refined == refine_products(products, processed.dosage, processed.route,
                                      processed.form)
           match_result == evaluate_product_matches(products, refined, user_was_specific)
       IN  pl' = IF Len(products) = 0
                 THEN [ pl EXCEPT !.pc = "done", !.out = PlFailure("") ]
                 ELSE IF CallsArbiter(match_result)
                 THEN [ pl EXCEPT !.pc = "dosage", !.products = products,
                                  !.match_type = match_result.match_type,
                                  !.arbiter_calls = pl.arbiter_calls + 1,
                                  !.label_queries = pl.label_queries + 1 ]
                 ELSE [ pl EXCEPT !.pc = "done", !.products = products,
                                  !.match_type = match_result.match_type,
                                  !.out = PlSuccess(None) ]
    /\ UNCHANGED <<dsVars, luVars, csVars, gdVars, clVars, pmVars, dcVars, wr>>

\* lines 131-148: get_dosage_info has returned or raised
PlDosageDone(fda_info) ==
    /\ pl.pc = "dosage"
    /\ LET processed == Val(pl.processed)
           r == get_dosage_info(fda_info, processed.dosage_numeric, processed.weight_kg,
                                None, None)
       IN  pl' = [ pl EXCEPT !.pc = "done",
                             !.out = IF r.kind = "return"
                                     THEN PlSuccess(clean_dosage_info(Val(r.value)))
                                     ELSE Some([ kind |-> "raise", success |-> FALSE,
                                                 error |-> r.exc, dosage_info |-> None ]) ]
    /\ UNCHANGED <<dsVars, luVars, csVars, gdVars, clVars, pmVars, dcVars, wr>>

InitPipeline == DosageInit /\ LookupIdle /\ CacheIdle /\ FanIdle /\ RestIdle

NextPipeline ==
    \/ \E brand_name \in PipelineBrands, dosage \in Dosages, route \in Routes,
          form \in Forms, dosage_numeric \in PipelineDoses,
          weight_kg \in PipelineWeights :
           PlStart(Processed(brand_name, dosage, route, form, dosage_numeric, weight_kg))
    \/ /\ pl.pc = "lookup"
       /\ \E products \in LookupResults(Val(Val(pl.processed).brand_name)) :
              PlLookupDone(products)
    \/ \E fda_info \in PipelineLabels : PlDosageDone(fda_info)

SpecPipeline == InitPipeline /\ [][NextPipeline]_vars

(***************************************************************************)
(* Claims on the order of the pipeline                                     *)
(***************************************************************************)
PlDone == pl.pc = "done"
PlExact == Len(pl.products) > 0 /\ pl.match_type = "exact"

\* C38: in _process_drug_lookup the dosage arbiter, and with it the label
\* client, is invoked only after lookup_drug has returned a non-empty
\* product set and the match was classified exact; for every other outcome
\* (no brand name, no products, multiple, none, vague) no label query is
\* issued and the returned dosage info is absent.
C38_ArbiterAfterExactMatch ==
    /\ pl.arbiter_calls <= 1 /\ pl.label_queries <= pl.arbiter_calls
    /\ pl.arbiter_calls > 0 => (pl.lookups = 1 /\ pl.pc \in {"dosage", "done"} /\ PlExact)
    /\ pl.pc = "dosage" => (pl.arbiter_calls = 1 /\ PlExact)
    /\ (PlDone /\ ~PlExact)
         => /\ pl.label_queries = 0
            /\ pl.arbiter_calls = 0
            /\ Val(pl.out).kind = "return"
            /\ IsNone(Val(pl.out).dosage_info)

\* "500 mg" picks one of the two Tylenol products: one arbiter call, one
\* label query, dosage info in the response
C38_Witness ==
    /\ PlDone /\ PlExact
    /\ pl.products = TylenolProducts
    /\ pl.arbiter_calls = 1 /\ pl.label_queries = 1
    /\ Val(pl.out).kind = "return"
    /\ ~IsNone(Val(pl.out).dosage_info)

\* the outcomes without arbiter: a request ended with several matches
PlMultipleReached ==
    PlDone /\ pl.match_type = "multiple" /\ pl.label_queries = 0

====
